---- MODULE Spec2Model ----
(***************************************************************************)
(* Model of the transcript evaluator of mcp-server-instructions-demo       *)
(* (evaluate_instructions.sh, in its content-based and filename-based      *)
(* versions), of the in-memory todo store (TodoStore), of the validation   *)
(* middleware and of the todo routes.                                      *)
(*                                                                         *)
(* Spec         one evaluation: extraction and classification of a         *)
(*              sequence                                                   *)
(* SpecWide     the same with tool names of servers named with '_'         *)
(* SpecExtract  jq's extraction of the tool names from a transcript file   *)
(* SpecRun      a run of the script over the files of a directory, with    *)
(*              its summary                                                *)
(* SpecTasks    the task and variant each script hands to the classifier   *)
(* SpecStore    the calls on the todo store                                *)
(* SpecValidate one request through one validation middleware              *)
(* SpecRoutes   requests to the todo routes                                *)
(*                                                                         *)
(* Shell strings are modelled as sequences of pieces: a piece is a word    *)
(* (a run of characters without '_' and ','), the underscore "_" or the    *)
(* separator ",".  The byte length of a string is the sum of the lengths   *)
(* of its pieces, so substring tests and grep byte offsets are computed on *)
(* the serialized sequence as the script computes them.                    *)
(***************************************************************************)
EXTENDS Integers, Sequences, FiniteSets, TLC

\* Longest transcript (number of tool calls) the model draws.
MaxCalls == 4

----------------------------------------------------------------------------
\* Strings as piece sequences

RECURSIVE Str(_)
\* the string w1_w2_..._wn of the words ws
Str(ws) ==
    IF Len(ws) = 0 THEN << >>
    ELSE IF Len(ws) = 1 THEN << ws[1] >>
    ELSE << ws[1], "_" >> \o Str(Tail(ws))

RECURSIVE ByteLen(_)
\* number of bytes of the string s
ByteLen(s) == IF Len(s) = 0 THEN 0 ELSE Len(s[1]) + ByteLen(Tail(s))

\* the decimal digits
Digit(d) == << "0", "1", "2", "3", "4", "5", "6", "7", "8", "9" >>[d + 1]

\* pattern pat occurs in s starting at piece k
MatchAt(s, pat, k) ==
    /\ k + Len(pat) - 1 <= Len(s)
    /\ \A j \in 1..Len(pat) : s[k + j - 1] = pat[j]

\* [[ "$s" == *"pat"* ]]
Contains(s, pat) == \E k \in 1..Len(s) : MatchAt(s, pat, k)

----------------------------------------------------------------------------
\* Tool name constants of the scripts

CREATE_PENDING    == Str(<< "create", "pending", "pull", "request", "review" >>)
ADD_COMMENT       == Str(<< "add", "comment", "to", "pending", "review" >>)
SUBMIT_PENDING    == Str(<< "submit", "pending", "pull", "request", "review" >>)
CREATE_AND_SUBMIT == Str(<< "create", "and", "submit", "pull", "request", "review" >>)
CREATE_ISSUE      == Str(<< "create", "issue" >>)
CREATE_PR         == Str(<< "create", "pull", "request" >>)

\* a tool the classifier does not know (VS Code built-in, recorded unprefixed)
RUN_IN_TERMINAL   == Str(<< "run", "in", "terminal" >>)

\* the name under which VS Code records a tool of the GitHub MCP server
Mcp(tool) == << "mcp", "_", "github", "_" >> \o tool

\* names a transcript's toolCalls[].name can hold
RawNames ==
    { Mcp(CREATE_PENDING), Mcp(ADD_COMMENT), Mcp(SUBMIT_PENDING),
      Mcp(CREATE_AND_SUBMIT), Mcp(CREATE_ISSUE), Mcp(CREATE_PR),
      RUN_IN_TERMINAL }

\* task labels: the three of the case statement and one that takes the default
Tasks == { "pr_review", "simple_pr_comment", "issue_linking", "simple_comment" }

\* instructions variants the two scripts produce
Variants == { "with_instructions", "NO_instructions", "no_instructions_found", "unknown" }

SeqsUpTo(S, n) == UNION { [1..k -> S] : k \in 0..n }

----------------------------------------------------------------------------
\* extract_tool_sequence

\* sed 's/^mcp_[^_]*_//'
StripPrefix(name) ==
    IF Len(name) >= 3 /\ name[1] = "mcp" /\ name[2] = "_" /\ name[3] = "_"
    THEN SubSeq(name, 4, Len(name))
    ELSE IF Len(name) >= 4 /\ name[1] = "mcp" /\ name[2] = "_" /\ name[4] = "_"
    THEN SubSeq(name, 5, Len(name))
    ELSE name

RECURSIVE Lines(_)
\* tr '\n' ',' : every line of the jq output, each followed by a comma
Lines(ns) ==
    IF Len(ns) = 0 THEN << >>
    ELSE StripPrefix(ns[1]) \o << "," >> \o Lines(Tail(ns))

\* sed 's/,$//'
StripTrailingComma(s) ==
    IF Len(s) > 0 /\ s[Len(s)] = "," THEN SubSeq(s, 1, Len(s) - 1) ELSE s

extract_tool_sequence(ns) == StripTrailingComma(Lines(ns))

----------------------------------------------------------------------------
\* IFS=',' read -ra tools <<< "$actual"

RECURSIVE FieldsFrom(_, _)
\* the fields of s from piece k on: a comma ends a field, and what follows the
\* last comma is a field unless it is empty
FieldsFrom(s, k) ==
    IF k > Len(s) THEN << >>
    ELSE IF \A j \in k..Len(s) : s[j] # "," THEN << SubSeq(s, k, Len(s)) >>
    ELSE LET c == CHOOSE j \in k..Len(s) :
                     s[j] = "," /\ \A m \in k..(j - 1) : s[m] # ","
         IN  << SubSeq(s, k, c - 1) >> \o FieldsFrom(s, c + 1)

\* ReadArray that makes one empty field of the empty string
ReadArray_EmptyField(s) == IF Len(s) = 0 THEN << << >> >> ELSE FieldsFrom(s, 1)

ReadArray(s) == FieldsFrom(s, 1)

----------------------------------------------------------------------------
\* check_tools_present

NoWorkflowFlags ==
    [ has_create_pending |-> FALSE, has_add_comment |-> FALSE, has_submit_pending |-> FALSE ]

RECURSIVE ScanWorkflow(_, _, _)
\* for tool in "${tools[@]}" of the pr_review branch, from element i on
ScanWorkflow(tools, i, has) ==
    IF i > Len(tools) THEN has
    ELSE ScanWorkflow(tools, i + 1,
            IF tools[i] = CREATE_PENDING THEN [has EXCEPT !.has_create_pending = TRUE]
            ELSE IF tools[i] = ADD_COMMENT THEN [has EXCEPT !.has_add_comment = TRUE]
            ELSE IF tools[i] = SUBMIT_PENDING THEN [has EXCEPT !.has_submit_pending = TRUE]
            ELSE has)

\* PrReviewStrict with has_submit_pending left out of the final test
PrReviewStrict_NoSubmit(tools) ==
    LET has == ScanWorkflow(tools, 1, NoWorkflowFlags)
    IN  IF has.has_create_pending /\ has.has_add_comment THEN "true" ELSE "false"

\* pr_review, with_instructions: the full three-step workflow is required
PrReviewStrict(tools) ==
    LET has == ScanWorkflow(tools, 1, NoWorkflowFlags)
    IN  IF has.has_create_pending /\ has.has_add_comment /\ has.has_submit_pending
        THEN "true" ELSE "false"

RECURSIVE PrReviewPermissiveFrom(_, _)
\* pr_review, any other variant: the first review tool found answers "true"
PrReviewPermissiveFrom(tools, i) ==
    IF i > Len(tools) THEN "false"
    ELSE IF \/ tools[i] = CREATE_PENDING
            \/ tools[i] = ADD_COMMENT
            \/ tools[i] = SUBMIT_PENDING
            \/ tools[i] = CREATE_AND_SUBMIT
    THEN "true"
    ELSE PrReviewPermissiveFrom(tools, i + 1)

\* PrReviewPermissive with "false" echoed inside the loop: only the first
\* tool is looked at
PrReviewPermissive_FirstOnly(tools) ==
    IF Len(tools) = 0 THEN "false"
    ELSE IF \/ tools[1] = CREATE_PENDING
            \/ tools[1] = ADD_COMMENT
            \/ tools[1] = SUBMIT_PENDING
            \/ tools[1] = CREATE_AND_SUBMIT
    THEN "true" ELSE "false"

\* PrReviewPermissive without the single-step tool in its list
PrReviewPermissive_NoSingleStep(tools) ==
    IF \E i \in 1..Len(tools) :
          \/ tools[i] = CREATE_PENDING
          \/ tools[i] = ADD_COMMENT
          \/ tools[i] = SUBMIT_PENDING
    THEN "true" ELSE "false"

PrReviewPermissive(tools) == PrReviewPermissiveFrom(tools, 1)

RECURSIVE SimplePrCommentFrom(_, _)
SimplePrCommentFrom(tools, i) ==
    IF i > Len(tools) THEN "false"
    ELSE IF tools[i] = CREATE_AND_SUBMIT THEN "true"
    ELSE SimplePrCommentFrom(tools, i + 1)

\* SimplePrComment accepting the pending-review submit tool as well
SimplePrComment_AnySubmit(tools) ==
    IF \E i \in 1..Len(tools) :
          tools[i] = CREATE_AND_SUBMIT \/ tools[i] = SUBMIT_PENDING
    THEN "true" ELSE "false"

SimplePrComment(tools) == SimplePrCommentFrom(tools, 1)

NoIssueFlags == [ has_create_issue |-> FALSE, has_create_pr |-> FALSE ]

RECURSIVE ScanIssue(_, _, _)
ScanIssue(tools, i, has) ==
    IF i > Len(tools) THEN has
    ELSE ScanIssue(tools, i + 1,
            IF tools[i] = CREATE_ISSUE THEN [has EXCEPT !.has_create_issue = TRUE]
            ELSE IF tools[i] = CREATE_PR THEN [has EXCEPT !.has_create_pr = TRUE]
            ELSE has)

\* IssueLinking with || in place of && in the final test
IssueLinking_Either(tools) ==
    LET has == ScanIssue(tools, 1, NoIssueFlags)
    IN  IF has.has_create_issue \/ has.has_create_pr THEN "true" ELSE "false"

IssueLinking(tools) ==
    LET has == ScanIssue(tools, 1, NoIssueFlags)
    IN  IF has.has_create_issue /\ has.has_create_pr THEN "true" ELSE "false"

RECURSIVE ScanWorkflowDefault(_, _, _)
\* the loop of the default branch
ScanWorkflowDefault(tools, i, has) ==
    IF i > Len(tools) THEN has
    ELSE ScanWorkflowDefault(tools, i + 1,
            IF tools[i] = CREATE_PENDING THEN [has EXCEPT !.has_create_pending = TRUE]
            ELSE IF tools[i] = ADD_COMMENT THEN [has EXCEPT !.has_add_comment = TRUE]
            ELSE IF tools[i] = SUBMIT_PENDING THEN [has EXCEPT !.has_submit_pending = TRUE]
            ELSE has)

DefaultStrict(tools) ==
    LET has == ScanWorkflowDefault(tools, 1, NoWorkflowFlags)
    IN  IF has.has_create_pending /\ has.has_add_comment /\ has.has_submit_pending
        THEN "true" ELSE "false"

RECURSIVE DefaultPermissiveFrom(_, _)
DefaultPermissiveFrom(tools, i) ==
    IF i > Len(tools) THEN "false"
    ELSE IF \/ tools[i] = CREATE_PENDING
            \/ tools[i] = ADD_COMMENT
            \/ tools[i] = SUBMIT_PENDING
            \/ tools[i] = CREATE_AND_SUBMIT
    THEN "true"
    ELSE DefaultPermissiveFrom(tools, i + 1)

\* DefaultPermissive without the single-step tool in its list: the copy of
\* the pr_review branch gone out of step with the original
DefaultPermissive_NoSingleStep(tools) ==
    IF \E i \in 1..Len(tools) :
          \/ tools[i] = CREATE_PENDING
          \/ tools[i] = ADD_COMMENT
          \/ tools[i] = SUBMIT_PENDING
    THEN "true" ELSE "false"

DefaultPermissive(tools) == DefaultPermissiveFrom(tools, 1)

\* check_tools_present "$sequence" "$task" "$instructions_variant"
check_tools_present(actual, tsk, variant) ==
    LET tools == ReadArray(actual)
    IN  CASE tsk = "pr_review" ->
                IF variant = "with_instructions"
                THEN PrReviewStrict(tools) ELSE PrReviewPermissive(tools)
          [] tsk = "simple_pr_comment" -> SimplePrComment(tools)
          [] tsk = "issue_linking" -> IssueLinking(tools)
          [] OTHER ->
                IF variant = "with_instructions"
                THEN DefaultStrict(tools) ELSE DefaultPermissive(tools)

----------------------------------------------------------------------------
\* count_tool_occurrences

RECURSIVE CountFrom(_, _, _, _)
CountFrom(tools, tool_name, i, count) ==
    IF i > Len(tools) THEN count
    ELSE CountFrom(tools, tool_name, i + 1,
                   IF tools[i] = tool_name THEN count + 1 ELSE count)

\* count_tool_occurrences with count=1 in place of ((count++))
count_tool_occurrences_Presence(seq, tool_name) ==
    IF \E i \in 1..Len(ReadArray(seq)) : ReadArray(seq)[i] = tool_name THEN 1 ELSE 0

count_tool_occurrences(seq, tool_name) == CountFrom(ReadArray(seq), tool_name, 1, 0)

----------------------------------------------------------------------------
\* detect_error_pattern

RECURSIVE GrepOffsetsFrom(_, _, _)
\* grep -b -o "pat" | cut -d: -f1 : one line per match, left to right and not
\* overlapping, holding the byte offset of the match
GrepOffsetsFrom(s, pat, k) ==
    IF k > Len(s) THEN << >>
    ELSE IF MatchAt(s, pat, k)
    THEN << ByteLen(SubSeq(s, 1, k - 1)) >> \o GrepOffsetsFrom(s, pat, k + Len(pat))
    ELSE GrepOffsetsFrom(s, pat, k + 1)

GrepOffsets(s, pat) == GrepOffsetsFrom(s, pat, 1)

\* [[ $a -lt $b ]] : both operands are evaluated as arithmetic expressions.  An
\* empty operand is 0; an operand of several lines ("0" newline "100") is a
\* syntax error, which makes the test fail.
ArithLess(a, b) ==
    /\ Len(a) <= 1
    /\ Len(b) <= 1
    /\ (IF Len(a) = 0 THEN 0 ELSE a[1]) < (IF Len(b) = 0 THEN 0 ELSE b[1])

\* detect_error_pattern whose first test looks for the absence of the submit
\* tool instead of the begin-review tool
detect_error_pattern_WrongAbsent(seq) ==
    IF Contains(seq, CREATE_AND_SUBMIT) /\ ~Contains(seq, SUBMIT_PENDING)
    THEN "immediate_submit"
    ELSE IF Contains(seq, CREATE_PENDING) /\ ~Contains(seq, ADD_COMMENT)
    THEN "missing_line_comments"
    ELSE IF /\ Contains(seq, SUBMIT_PENDING)
            /\ Contains(seq, CREATE_PENDING)
            /\ ArithLess(GrepOffsets(seq, SUBMIT_PENDING), GrepOffsets(seq, CREATE_PENDING))
    THEN "wrong_order"
    ELSE "none"

\* detect_error_pattern with the wrong-order test ahead of the missing-comment test
detect_error_pattern_OrderFirst(seq) ==
    IF Contains(seq, CREATE_AND_SUBMIT) /\ ~Contains(seq, CREATE_PENDING)
    THEN "immediate_submit"
    ELSE IF /\ Contains(seq, SUBMIT_PENDING)
            /\ Contains(seq, CREATE_PENDING)
            /\ ArithLess(GrepOffsets(seq, SUBMIT_PENDING), GrepOffsets(seq, CREATE_PENDING))
    THEN "wrong_order"
    ELSE IF Contains(seq, CREATE_PENDING) /\ ~Contains(seq, ADD_COMMENT)
    THEN "missing_line_comments"
    ELSE "none"

detect_error_pattern(seq) ==
    IF Contains(seq, CREATE_AND_SUBMIT) /\ ~Contains(seq, CREATE_PENDING)
    THEN "immediate_submit"
    ELSE IF Contains(seq, CREATE_PENDING) /\ ~Contains(seq, ADD_COMMENT)
    THEN "missing_line_comments"
    ELSE IF /\ Contains(seq, SUBMIT_PENDING)
            /\ Contains(seq, CREATE_PENDING)
            /\ LET submit_pos == GrepOffsets(seq, SUBMIT_PENDING)
                   create_pos == GrepOffsets(seq, CREATE_PENDING)
               IN  ArithLess(submit_pos, create_pos)
    THEN "wrong_order"
    ELSE "none"

----------------------------------------------------------------------------
\* One evaluation: the steps of the main loop's body that extract and classify
\* the tool sequence of one transcript.  The task and the instructions variant
\* are parameters of the classifier and are drawn when it is applied.

VARIABLES
    names,                    \* toolCalls[].name of the transcript, in jq's output order
    task,                     \* $task
    instructions_variant,     \* $instructions_variant ($instructions in the filename-based script)
    sequence,                 \* $sequence
    success,                  \* $success
    create_pending_count,     \* $create_pending_count
    add_comment_count,        \* $add_comment_count
    submit_pending_count,     \* $submit_pending_count
    create_and_submit_count,  \* $create_and_submit_count
    error_type,               \* $error_type
    pc,                       \* the step of the loop body to run next
    transcript,               \* the content of the transcript file $transcript
    files,                    \* the files "$TRANSCRIPT_DIR"/*.json, in glob order
    cursor,                   \* how many of the files the for loop has taken
    output,                   \* the lines of $OUTPUT_FILE
    report,                   \* the summary the script prints after the loop
    todos,                    \* TodoStore.todos, a Map in insertion order
    nextId,                   \* TodoStore.nextId
    clock,                    \* the time new Date() reads
    call,                     \* the call made last on the store: method and arguments
    ret,                      \* the value that call returned
    req,                      \* the HTTP request being handled
    res                       \* the response to it, and whether next() was called

\* the variables of one evaluation
evalVars == << names, task, instructions_variant, sequence, success,
               create_pending_count, add_comment_count, submit_pending_count,
               create_and_submit_count, error_type >>

\* the variables of a run of the script over a directory
runVars == << transcript, files, cursor, output, report >>

\* the variables of the todo store and of its caller
storeVars == << todos, nextId, clock, call, ret >>

\* the variables of the HTTP layer
httpVars == << req, res >>

vars == << evalVars, pc, runVars, storeVars, httpVars >>

\* a shell variable that has not been assigned
Unset == ""

\* the script is not running over a directory
NoRun ==
    /\ transcript = Unset
    /\ files = << >>
    /\ cursor = 0
    /\ output = << >>
    /\ report = Unset

\* no todo store exists
NoStore ==
    /\ todos = << >>
    /\ nextId = 0
    /\ clock = 0
    /\ call = Unset
    /\ ret = Unset

\* no HTTP request is being handled
NoHttp ==
    /\ req = Unset
    /\ res = Unset

Init ==
    /\ names \in SeqsUpTo(RawNames, MaxCalls)
    /\ task = Unset
    /\ instructions_variant = Unset
    /\ sequence = Unset
    /\ success = Unset
    /\ create_pending_count = Unset
    /\ add_comment_count = Unset
    /\ submit_pending_count = Unset
    /\ create_and_submit_count = Unset
    /\ error_type = Unset
    /\ pc = "extract"
    /\ NoRun
    /\ NoStore
    /\ NoHttp

\* sequence=$(extract_tool_sequence "$transcript")
ExtractToolSequence ==
    /\ pc = "extract"
    /\ sequence' = extract_tool_sequence(names)
    /\ pc' = "classify"
    /\ UNCHANGED << names, task, instructions_variant, success,
                    create_pending_count, add_comment_count, submit_pending_count,
                    create_and_submit_count, error_type >>
    /\ UNCHANGED << runVars, storeVars, httpVars >>

\* success=$(check_tools_present ...), the four *_count=$(count_tool_occurrences ...)
\* and error_type=$(detect_error_pattern ...), all on the same $sequence; the
\* three are independent of each other, each reading $sequence only
Classify ==
    /\ pc = "classify"
    /\ pc' = "done"
    /\ UNCHANGED << names, sequence >>
    /\ UNCHANGED << runVars, storeVars, httpVars >>
    /\ create_pending_count' = count_tool_occurrences(sequence, CREATE_PENDING)
    /\ add_comment_count' = count_tool_occurrences(sequence, ADD_COMMENT)
    /\ submit_pending_count' = count_tool_occurrences(sequence, SUBMIT_PENDING)
    /\ create_and_submit_count' = count_tool_occurrences(sequence, CREATE_AND_SUBMIT)
    /\ error_type' = detect_error_pattern(sequence)
    /\ \E tsk \in Tasks, variant \in Variants :
          /\ task' = tsk
          /\ instructions_variant' = variant
          /\ success' = check_tools_present(sequence, tsk, variant)

Next ==
    \/ ExtractToolSequence
    \/ Classify

Spec == Init /\ [][Next]_vars

----------------------------------------------------------------------------
\* Vocabulary of the properties

\* the tool names of the transcript's calls, in call order
ToolSequence == [ i \in 1..Len(names) |-> StripPrefix(names[i]) ]

\* the tool was called at least once
Uses(tool) == \E i \in 1..Len(names) : StripPrefix(names[i]) = tool

\* position of the first call of a tool that was called
FirstCall(tool) == CHOOSE i \in 1..Len(names) :
    /\ StripPrefix(names[i]) = tool
    /\ \A j \in 1..(i - 1) : StripPrefix(names[j]) # tool

\* number of calls of the tool
Calls(tool) == Cardinality({ i \in 1..Len(names) : StripPrefix(names[i]) = tool })

ThreeStepWorkflow == Uses(CREATE_PENDING) /\ Uses(ADD_COMMENT) /\ Uses(SUBMIT_PENDING)

AnyReviewTool ==
    \/ Uses(CREATE_PENDING)
    \/ Uses(ADD_COMMENT)
    \/ Uses(SUBMIT_PENDING)
    \/ Uses(CREATE_AND_SUBMIT)

\* $success has been assigned
Checked == pc = "done"

\* $error_type has been assigned
Detected == pc = "done"

\* the three anomaly conditions
ImmediateSubmit == Uses(CREATE_AND_SUBMIT) /\ ~Uses(CREATE_PENDING)

MissingLineComments == Uses(CREATE_PENDING) /\ ~Uses(ADD_COMMENT)

SubmitBeforeCreate ==
    /\ Uses(SUBMIT_PENDING)
    /\ Uses(CREATE_PENDING)
    /\ FirstCall(SUBMIT_PENDING) < FirstCall(CREATE_PENDING)

----------------------------------------------------------------------------
\* Properties

\* C1: with task pr_review and variant with_instructions, success is "true"
\* exactly when the begin-review, the comment and the submit tool were each
\* called at least once, in any order and any number of times.
C1_StrictIffAllThree ==
    (Checked /\ task = "pr_review" /\ instructions_variant = "with_instructions")
        => /\ success \in { "true", "false" }
           /\ (success = "true") <=> ThreeStepWorkflow

\* C1 witness: a strict success on four calls that start with the submit tool
C1_Witness ==
    /\ Detected
    /\ task = "pr_review"
    /\ instructions_variant = "with_instructions"
    /\ success = "true"
    /\ Len(names) = MaxCalls
    /\ ToolSequence[1] = SUBMIT_PENDING

C3_SuccessOnlyThreeStep ==
    (Checked /\ task = "pr_review")
        => ((success = "true") => ThreeStepWorkflow)

\* C4: when the single-step tool was called and the begin-review tool was
\* not, error_type is immediate_submit, whatever else was called.
C4_ImmediateSubmit ==
    (Detected /\ ImmediateSubmit) => error_type = "immediate_submit"

\* C4 witness: immediate_submit reported although the comment tool was called
\* and the submit tool was called first
C4_Witness ==
    /\ Detected
    /\ error_type = "immediate_submit"
    /\ Uses(ADD_COMMENT)
    /\ Len(names) > 2
    /\ ToolSequence[1] = SUBMIT_PENDING

\* C5: when the begin-review tool was called and the comment tool was not,
\* error_type is missing_line_comments (also with the single-step tool or an
\* out-of-order submit present); it never is when the comment tool was called.
C5_MissingLineComments ==
    Detected =>
        /\ MissingLineComments => error_type = "missing_line_comments"
        /\ Uses(ADD_COMMENT) => error_type # "missing_line_comments"

\* C5 witness: missing_line_comments with the single-step tool present and
\* the submit tool called before the begin-review tool
C5_Witness ==
    /\ Detected
    /\ error_type = "missing_line_comments"
    /\ Uses(CREATE_AND_SUBMIT)
    /\ SubmitBeforeCreate

\* C6: when neither immediate_submit nor missing_line_comments applies and
\* both the begin-review and the submit tool were called, error_type is
\* wrong_order exactly when the first submit precedes the first begin-review,
\* for any number of calls of either tool.
C6_WrongOrderIffFirstSubmitFirst ==
    (/\ Detected
     /\ ~ImmediateSubmit
     /\ ~MissingLineComments
     /\ Uses(CREATE_PENDING)
     /\ Uses(SUBMIT_PENDING))
        => ((error_type = "wrong_order") <=> SubmitBeforeCreate)

\* C7: error_type is one of the four labels, and it is none exactly when none
\* of the three anomaly conditions holds.
C7_NoneIffNoAnomaly ==
    Detected =>
        /\ error_type \in { "immediate_submit", "missing_line_comments", "wrong_order", "none" }
        /\ (error_type = "none")
              <=> (~ImmediateSubmit /\ ~MissingLineComments /\ ~SubmitBeforeCreate)

\* the raw names in a fixed order
NameOrder ==
    << Mcp(CREATE_AND_SUBMIT), RUN_IN_TERMINAL, Mcp(CREATE_ISSUE), Mcp(SUBMIT_PENDING),
       Mcp(CREATE_PR), Mcp(ADD_COMMENT), Mcp(CREATE_PENDING) >>

Called(n) == \E i \in 1..Len(names) : names[i] = n

\* the distinct names called in the transcript, each once, in the fixed order
DistinctCalls == SelectSeq(NameOrder, Called)

\* the calls of the transcript in reverse order
Reversed == [ k \in 1..Len(names) |-> names[Len(names) + 1 - k] ]

\* the calls of the transcript, every one of them made a second time
Doubled == names \o names

\* C8: the verdict of check_tools_present is the one it gives for the distinct
\* names of the sequence taken once each in a fixed order: it depends on the
\* set of names called, the task and the variant only, so that no permutation
\* and no repetition of calls changes it; in particular it is the verdict for
\* the reversed sequence and for the sequence with every call repeated.
C8_OrderAndMultiplicityIrrelevant ==
    Checked =>
        /\ success = check_tools_present(extract_tool_sequence(DistinctCalls),
                                         task, instructions_variant)
        /\ success = check_tools_present(extract_tool_sequence(Reversed),
                                         task, instructions_variant)
        /\ success = check_tools_present(extract_tool_sequence(Doubled),
                                         task, instructions_variant)

\* C8 witness: a permissive success on calls whose first is not a review tool
C8_Witness ==
    /\ Checked
    /\ task = "pr_review"
    /\ instructions_variant = "no_instructions_found"
    /\ success = "true"
    /\ Len(names) = 3
    /\ ToolSequence[1] = RUN_IN_TERMINAL
    /\ ToolSequence[3] = CREATE_AND_SUBMIT

\* C9: with task simple_pr_comment, success is "true" exactly when the
\* single-step tool was called, whatever the variant and the other calls.
C9_SimpleCommentIffSingleStep ==
    (Checked /\ task = "simple_pr_comment")
        => /\ success \in { "true", "false" }
           /\ (success = "true") <=> Uses(CREATE_AND_SUBMIT)

\* C9 witness: with_instructions, the three-step workflow called and no
\* single-step tool: not a success
C9_Witness ==
    /\ Detected
    /\ task = "simple_pr_comment"
    /\ instructions_variant = "with_instructions"
    /\ ThreeStepWorkflow
    /\ success = "false"

\* C10: with task issue_linking, success is "true" exactly when create_issue
\* and create_pull_request were each called, in either order and whatever
\* the variant.
C10_IssueLinkingIffBoth ==
    (Checked /\ task = "issue_linking")
        => /\ success \in { "true", "false" }
           /\ (success = "true") <=> (Uses(CREATE_ISSUE) /\ Uses(CREATE_PR))

\* C10 witness: success with create_pull_request called before create_issue
C10_Witness ==
    /\ Detected
    /\ task = "issue_linking"
    /\ success = "true"
    /\ FirstCall(CREATE_PR) < FirstCall(CREATE_ISSUE)

\* task labels that the case statement of check_tools_present does not name
DefaultTasks == { "simple_comment", "issue_link", "" }

\* C11: for a task label other than pr_review, simple_pr_comment and
\* issue_linking the verdict is "true" or "false" and is the verdict that task
\* pr_review gets for the same sequence and variant.
C11_DefaultIsPrReview ==
    Checked =>
        /\ task \notin { "pr_review", "simple_pr_comment", "issue_linking" }
              => /\ success \in { "true", "false" }
                 /\ success = check_tools_present(sequence, "pr_review", instructions_variant)
        /\ task = "pr_review"
              => \A t \in DefaultTasks :
                    check_tools_present(sequence, t, instructions_variant) = success

\* C11 witness: a default-task success under NO_instructions whose only review
\* tool is the single-step tool
C11_Witness ==
    /\ Checked
    /\ task = "simple_comment"
    /\ instructions_variant = "NO_instructions"
    /\ success = "true"
    /\ Uses(CREATE_AND_SUBMIT)
    /\ ~Uses(CREATE_PENDING) /\ ~Uses(ADD_COMMENT) /\ ~Uses(SUBMIT_PENDING)

\* C12: each of the four counts of a row is the number of calls of its tool in
\* the classified sequence, and count_tool_occurrences gives the number of
\* calls for other target names as well (0 for a tool not called).  The counts
\* do not read the task and the variant, so the other target names are tried
\* once per sequence.
C12_CountsExact ==
    Detected =>
        /\ create_pending_count = Calls(CREATE_PENDING)
        /\ add_comment_count = Calls(ADD_COMMENT)
        /\ submit_pending_count = Calls(SUBMIT_PENDING)
        /\ create_and_submit_count = Calls(CREATE_AND_SUBMIT)
        /\ (task = "pr_review" /\ instructions_variant = "unknown")
              => /\ count_tool_occurrences(sequence, CREATE_ISSUE) = Calls(CREATE_ISSUE)
                 /\ count_tool_occurrences(sequence, RUN_IN_TERMINAL) = Calls(RUN_IN_TERMINAL)

\* C12 witness: the begin-review tool counted three times, the single-step
\* tool not at all
C12_Witness ==
    /\ Detected
    /\ create_pending_count = 3
    /\ create_and_submit_count = 0
    /\ Len(names) = 4

\* C14: splitting the serialized sequence gives back the tool names of the
\* calls, in call order, for no call, one call and several calls.
C14_JoinSplitRoundTrip ==
    (pc = "classify") => ReadArray(sequence) = ToolSequence

\* C14 witness: no call at all: the empty string, split into no name
C14_Witness ==
    /\ pc = "classify"
    /\ Len(names) = 0
    /\ Len(sequence) = 0
    /\ Len(ReadArray(sequence)) = 0


----------------------------------------------------------------------------
\* The transcript file and jq's walk over it

MaxRequests == 2
MaxRounds == 2
MaxRoundCalls == 2

\* the tool names the calls of a modelled transcript carry
TranscriptNames == { Mcp(CREATE_PENDING), Mcp(CREATE_AND_SUBMIT) }

\* .toolCalls of one round: its calls' names, in call order
ToolCallRounds == SeqsUpTo(TranscriptNames, MaxRoundCalls)

\* one element of .requests: .result.metadata.toolCallRounds is an array of
\* rounds, or the path to it gives null (no result, no metadata or no
\* toolCallRounds key)
Requests ==
    { [ rounds |-> "null", toolCallRounds |-> << >> ] }
    \cup { [ rounds |-> "array", toolCallRounds |-> r ] :
              r \in SeqsUpTo(ToolCallRounds, MaxRounds) }

\* a file jq cannot read or parse
Malformed == [ json |-> FALSE, requests |-> << >> ]

\* the transcript files: unparsable, or a JSON object with an array .requests
Transcripts ==
    { Malformed }
    \cup { [ json |-> TRUE, requests |-> q ] : q \in SeqsUpTo(Requests, MaxRequests) }

\* .toolCallRounds[].toolCalls[].name of one request
RECURSIVE RoundNames(_)
RoundNames(rounds) ==
    IF Len(rounds) = 0 THEN << >> ELSE rounds[1] \o RoundNames(Tail(rounds))

\* jq -r '.requests[].result.metadata.toolCallRounds[].toolCalls[].name' 2>/dev/null
\* from request i on: the names come out request by request; iterating over
\* null is an error, on which jq stops with what it has printed so far
RECURSIVE JqNamesFrom(_, _)
JqNamesFrom(requests, i) ==
    IF i > Len(requests) THEN << >>
    ELSE IF requests[i].rounds = "null" THEN << >>
    ELSE RoundNames(requests[i].toolCallRounds) \o JqNamesFrom(requests, i + 1)

\* the lines jq prints for a transcript file; none for a file it cannot parse
JqNames(t) == IF t.json THEN JqNamesFrom(t.requests, 1) ELSE << >>

\* Extraction of the tool sequence from a transcript file
InitExtract ==
    /\ transcript \in Transcripts
    /\ names = << >>
    /\ task = Unset
    /\ instructions_variant = Unset
    /\ sequence = Unset
    /\ success = Unset
    /\ create_pending_count = Unset
    /\ add_comment_count = Unset
    /\ submit_pending_count = Unset
    /\ create_and_submit_count = Unset
    /\ error_type = Unset
    /\ pc = "extract"
    /\ files = << >>
    /\ cursor = 0
    /\ output = << >>
    /\ report = Unset
    /\ NoStore
    /\ NoHttp

\* sequence=$(extract_tool_sequence "$transcript"), jq included
ExtractTranscript ==
    /\ pc = "extract"
    /\ names' = JqNames(transcript)
    /\ sequence' = extract_tool_sequence(JqNames(transcript))
    /\ pc' = "classify"
    /\ UNCHANGED << task, instructions_variant, success,
                    create_pending_count, add_comment_count, submit_pending_count,
                    create_and_submit_count, error_type >>
    /\ UNCHANGED << runVars, storeVars, httpVars >>

NextExtract == ExtractTranscript

SpecExtract == InitExtract /\ [][NextExtract]_vars

\* the names of all tool calls of a list of requests, in request order, then
\* round order, then call order; a request without rounds contributes none
RECURSIVE AllToolCalls(_)
AllToolCalls(requests) ==
    IF Len(requests) = 0 THEN << >>
    ELSE RoundNames(requests[1].toolCallRounds) \o AllToolCalls(Tail(requests))

\* C13: the extracted tool sequence holds the name of every tool call of every
\* request of a parsable transcript, in request, round and call order, also
\* when some request has no tool-call rounds
C13_EveryCallExtracted ==
    (pc = "classify" /\ transcript.json)
        => ReadArray(sequence) =
              [ i \in 1..Len(AllToolCalls(transcript.requests)) |->
                    StripPrefix(AllToolCalls(transcript.requests)[i]) ]

----------------------------------------------------------------------------
\* A run of the script over the transcript files of a directory

MaxFiles == 2

\* the contents a transcript file of the directory may have: unparsable, no
\* requests, one request without rounds (null or the empty array), one round
\* without calls, and one round with one call
RunTranscripts ==
    { Malformed,
      [ json |-> TRUE, requests |-> << >> ],
      [ json |-> TRUE,
        requests |-> << [ rounds |-> "null", toolCallRounds |-> << >> ] >> ],
      [ json |-> TRUE,
        requests |-> << [ rounds |-> "array", toolCallRounds |-> << >> ] >> ],
      [ json |-> TRUE,
        requests |-> << [ rounds |-> "array", toolCallRounds |-> << << >> >> ] >> ] }
    \cup { [ json |-> TRUE,
             requests |-> << [ rounds |-> "array", toolCallRounds |-> << << n >> >> ] >> ] :
              n \in TranscriptNames }

\* a file of the directory: its content, whether some
\* .requests[].response[].source.instructions line of it matches the grep
\* pattern of check_instructions_in_content, the first model name jq finds in
\* it (empty when it names none) and the first response value that matches
\* error|failed|issue (empty when none does); texts are piece sequences
RunFiles ==
    [ content : RunTranscripts, has_instruction : BOOLEAN,
      model : { << "gpt-5-mini" >> }, notes : { << >> } ]
    \cup [ content : { [ json |-> TRUE,
                          requests |-> << [ rounds |-> "array", toolCallRounds |-> << >> ] >> ] },
           has_instruction : BOOLEAN,
           model : { << >>, << " ", "GPT-4", ",", " preview", "\"" >> },
           notes : { << "merge failed", ",", "true", ",", "\n", "retry" >> } ]

\* check_instructions_in_content: jq prints no instructions for a file it
\* cannot parse
check_instructions_in_content(file) ==
    IF file.content.json /\ file.has_instruction
    THEN "with_instructions"
    ELSE "no_instructions_found"

\* the first line of $OUTPUT_FILE
Header == "model,instructions_variant,task,success,tool_sequence,error_type,notes,create_pending_count,add_comment_count,submit_pending_count,create_and_submit_count"

\* tr -d '"'
DeleteQuotes(s) == SelectSeq(s, LAMBDA piece : piece # "\"")

\* sed 's/^[[:space:]]*//;s/[[:space:]]*$//' on pieces that are blank or not
RECURSIVE TrimSpace(_)
TrimSpace(s) ==
    IF Len(s) = 0 THEN s
    ELSE IF s[1] = " " THEN TrimSpace(Tail(s))
    ELSE IF s[Len(s)] = " " THEN TrimSpace(SubSeq(s, 1, Len(s) - 1))
    ELSE s

\* extract_model_name: jq prints nothing for a file it cannot parse
extract_model_name(file) ==
    TrimSpace(DeleteQuotes(IF file.content.json /\ Len(file.model) > 0
                           THEN file.model ELSE << "unknown" >>))

NotesWidth == 100

\* cut -c1-100, a piece being kept whole
RECURSIVE CutWidth(_, _)
CutWidth(s, width) ==
    IF Len(s) = 0 \/ Len(s[1]) > width THEN << >>
    ELSE << s[1] >> \o CutWidth(Tail(s), width - Len(s[1]))

\* notes=$(jq ... | head -1 | base64 -d | tr '\n' ' ' | cut -c1-100 || echo "")
ExtractNotes(file) ==
    IF ~file.content.json \/ Len(file.content.requests) = 0 THEN << >>
    ELSE CutWidth([ i \in 1..Len(file.notes) |->
                       IF file.notes[i] = "\n" THEN " " ELSE file.notes[i] ],
                  NotesWidth)

\* the line echoed to $OUTPUT_FILE for one transcript
Row(model, variant, tsk, ok, seq, err, notes, n1, n2, n3, n4) ==
    [ model |-> model,
      notes |-> notes,
      instructions_variant |-> variant,
      task |-> tsk,
      success |-> ok,
      tool_sequence |-> seq,
      error_type |-> err,
      create_pending_count |-> n1,
      add_comment_count |-> n2,
      submit_pending_count |-> n3,
      create_and_submit_count |-> n4 ]

\* the decimal numeral the shell prints for a count
RECURSIVE Decimal(_)
Decimal(n) == IF n < 10 THEN Digit(n) ELSE Decimal(n \div 10) \o Digit(n % 10)

\* the text of the header line and of a row, as pieces
HeaderLine ==
    << "model", ",", "instructions_variant", ",", "task", ",", "success", ",",
       "tool_sequence", ",", "error_type", ",", "notes", ",", "create_pending_count", ",",
       "add_comment_count", ",", "submit_pending_count", ",", "create_and_submit_count" >>

CsvLine(row) ==
    row.model
    \o << ",", row.instructions_variant, ",", row.task, ",", row.success, ",", "\"" >>
    \o row.tool_sequence
    \o << "\"", ",", row.error_type, ",", "\"" >>
    \o row.notes
    \o << "\"", ",", Decimal(row.create_pending_count), ",", Decimal(row.add_comment_count),
          ",", Decimal(row.submit_pending_count), ",", Decimal(row.create_and_submit_count) >>

\* the lines of $OUTPUT_FILE
OutputLines(out) == [ i \in 1..Len(out) |-> IF i = 1 THEN HeaderLine ELSE CsvLine(out[i]) ]

\* grep pat "$OUTPUT_FILE" | wc -l
GrepCount(lines, pat) == Cardinality({ i \in 1..Len(lines) : Contains(lines[i], pat) })

\* awk -F',': the fields of a line
RECURSIVE AwkFields(_)
AwkFields(s) ==
    IF \A j \in 1..Len(s) : s[j] # "," THEN << s >>
    ELSE LET c == CHOOSE j \in 1..Len(s) : s[j] = "," /\ \A i \in 1..(j - 1) : s[i] # ","
         IN  << SubSeq(s, 1, c - 1) >> \o AwkFields(SubSeq(s, c + 1, Len(s)))

\* $k of a line, empty beyond the last field
AwkField(line, k) == IF k <= Len(AwkFields(line)) THEN AwkFields(line)[k] ELSE << >>

\* awk -F',' -v var="$variant" '$2 == var' "$OUTPUT_FILE" | wc -l
AwkVariantTotal(lines, variant) ==
    Cardinality({ i \in 1..Len(lines) : AwkField(lines[i], 2) = << variant >> })

\* awk -F',' -v var="$variant" '$2 == var && $4 == "true"' "$OUTPUT_FILE" | wc -l
AwkVariantSuccess(lines, variant) ==
    Cardinality({ i \in 1..Len(lines) :
                    /\ AwkField(lines[i], 2) = << variant >>
                    /\ AwkField(lines[i], 4) = << "true" >> })

\* the variants of the summary's loop
SummaryVariants == { "with_instructions", "no_instructions_found" }

\* echo "... $(( a * 100 / b ))%": not printed when b is 0, the arithmetic
\* expansion failing with "division by 0"
Percent(a, b) ==
    IF b = 0 THEN [ printed |-> FALSE, percent |-> 0 ]
    ELSE [ printed |-> TRUE, percent |-> (a * 100) \div b ]

\* what the script prints after the loop, and its exit status
Summary(out) ==
    [ status |-> 0,
      total |-> Len(out) - 1,
      successful |-> GrepCount(OutputLines(out), << ",", "true", "," >>),
      rate |-> Percent(GrepCount(OutputLines(out), << ",", "true", "," >>), Len(out) - 1),
      by_variant |->
          [ variant \in SummaryVariants |->
                [ printed |-> AwkVariantTotal(OutputLines(out), variant) > 0,
                  success |-> AwkVariantSuccess(OutputLines(out), variant),
                  total |-> AwkVariantTotal(OutputLines(out), variant) ] ] ]

InitRun ==
    /\ files \in SeqsUpTo(RunFiles, MaxFiles)
    /\ cursor = 0
    /\ output = << >>
    /\ report = Unset
    /\ transcript = Unset
    /\ names = << >>
    /\ task = Unset
    /\ instructions_variant = Unset
    /\ sequence = Unset
    /\ success = Unset
    /\ create_pending_count = Unset
    /\ add_comment_count = Unset
    /\ submit_pending_count = Unset
    /\ create_and_submit_count = Unset
    /\ error_type = Unset
    /\ pc = "start"
    /\ NoStore
    /\ NoHttp

\* echo "model,...,create_and_submit_count" > "$OUTPUT_FILE"
WriteHeader ==
    /\ pc = "start"
    /\ output' = << Header >>
    /\ pc' = "loop"
    /\ UNCHANGED << evalVars, transcript, files, cursor, report, storeVars, httpVars >>

\* the loop body for a transcript that is left out of the output
ProcessTranscript_SkipUnparsable ==
    /\ pc = "loop"
    /\ cursor < Len(files)
    /\ cursor' = cursor + 1
    /\ transcript' = files[cursor + 1].content
    /\ names' = JqNames(transcript')
    /\ instructions_variant' = check_instructions_in_content(files[cursor + 1])
    /\ task' = "pr_review"
    /\ sequence' = extract_tool_sequence(names')
    /\ success' = check_tools_present(sequence', task', instructions_variant')
    /\ create_pending_count' = count_tool_occurrences(sequence', CREATE_PENDING)
    /\ add_comment_count' = count_tool_occurrences(sequence', ADD_COMMENT)
    /\ submit_pending_count' = count_tool_occurrences(sequence', SUBMIT_PENDING)
    /\ create_and_submit_count' = count_tool_occurrences(sequence', CREATE_AND_SUBMIT)
    /\ error_type' = detect_error_pattern(sequence')
    /\ output' = IF transcript'.json
                 THEN Append(output,
                             Row(extract_model_name(files[cursor + 1]),
                                 instructions_variant', task', success', sequence',
                                 error_type', ExtractNotes(files[cursor + 1]),
                                 create_pending_count', add_comment_count',
                                 submit_pending_count', create_and_submit_count'))
                 ELSE output
    /\ pc' = "loop"
    /\ UNCHANGED << files, report, storeVars, httpVars >>

\* one iteration of  for transcript in "$TRANSCRIPT_DIR"/*.json : the whole loop
\* body, from the assignments of the shell variables to the echo of the row
ProcessTranscript ==
    /\ pc = "loop"
    /\ cursor < Len(files)
    /\ cursor' = cursor + 1
    /\ transcript' = files[cursor + 1].content
    /\ names' = JqNames(transcript')
    /\ instructions_variant' = check_instructions_in_content(files[cursor + 1])
    /\ task' = "pr_review"
    /\ sequence' = extract_tool_sequence(names')
    /\ success' = check_tools_present(sequence', task', instructions_variant')
    /\ create_pending_count' = count_tool_occurrences(sequence', CREATE_PENDING)
    /\ add_comment_count' = count_tool_occurrences(sequence', ADD_COMMENT)
    /\ submit_pending_count' = count_tool_occurrences(sequence', SUBMIT_PENDING)
    /\ create_and_submit_count' = count_tool_occurrences(sequence', CREATE_AND_SUBMIT)
    /\ error_type' = detect_error_pattern(sequence')
    /\ output' = Append(output,
                        Row(extract_model_name(files[cursor + 1]),
                            instructions_variant', task', success', sequence',
                            error_type', ExtractNotes(files[cursor + 1]),
                            create_pending_count', add_comment_count',
                            submit_pending_count', create_and_submit_count'))
    /\ pc' = "loop"
    /\ UNCHANGED << files, report, storeVars, httpVars >>

\* the loop ends as soon as a transcript gave no tool call
EndOfLoop_OnEmptySequence ==
    /\ pc = "loop"
    /\ \/ cursor = Len(files)
       \/ cursor > 0 /\ sequence = << >>
    /\ pc' = "summary"
    /\ UNCHANGED << evalVars, runVars, storeVars, httpVars >>

\* done: the glob has no more files
EndOfLoop ==
    /\ pc = "loop"
    /\ cursor = Len(files)
    /\ pc' = "summary"
    /\ UNCHANGED << evalVars, runVars, storeVars, httpVars >>

\* the echo lines after the loop, from "Summary:" to the per-variant lines
Summarise ==
    /\ pc = "summary"
    /\ report' = Summary(output)
    /\ pc' = "done"
    /\ UNCHANGED << evalVars, transcript, files, cursor, output, storeVars, httpVars >>

NextRun ==
    \/ WriteHeader
    \/ ProcessTranscript
    \/ EndOfLoop
    \/ Summarise

SpecRun == InitRun /\ [][NextRun]_vars

\* a file whose transcript is malformed, unreadable or without tool calls
ToolFree(file) ==
    \/ ~file.content.json
    \/ Len(AllToolCalls(file.content.requests)) = 0

\* the labels a task can carry: those of the case statement and those of its
\* default branch
AllTasks == Tasks \cup DefaultTasks

\* C15: a malformed, unreadable or tool-free transcript yields the empty tool
\* sequence and still gets its row, with success false, error_type none and
\* the four counts 0; the empty sequence gets that verdict under every task
\* and every instructions variant
C15_EmptySequenceRow ==
    /\ \A i \in 1..cursor :
          ToolFree(files[i]) =>
              /\ Len(output) >= i + 1
              /\ output[i + 1].tool_sequence = << >>
              /\ output[i + 1].success = "false"
              /\ output[i + 1].error_type = "none"
              /\ output[i + 1].create_pending_count = 0
              /\ output[i + 1].add_comment_count = 0
              /\ output[i + 1].submit_pending_count = 0
              /\ output[i + 1].create_and_submit_count = 0
    /\ (cursor > 0 /\ pc = "loop" /\ ToolFree(files[cursor])) =>
          /\ sequence = << >>
          /\ \A t \in AllTasks, v \in Variants :
                check_tools_present(sequence, t, v) = "false"
          /\ detect_error_pattern(sequence) = "none"

C15_Witness ==
    /\ pc = "summary"
    /\ Len(files) = 2
    /\ ~files[1].content.json
    /\ files[2].content.json /\ files[2].has_instruction
    /\ files[2].content.requests = << [ rounds |-> "null", toolCallRounds |-> << >> ] >>
    /\ Len(output) = 3
    /\ output[2].success = "false" /\ output[2].error_type = "none"
    /\ output[3].instructions_variant = "with_instructions"
    /\ output[3].success = "false"

\* the row the loop body writes for a file
RowOf(file) ==
    Row(extract_model_name(file),
        check_instructions_in_content(file),
        "pr_review",
        check_tools_present(extract_tool_sequence(JqNames(file.content)), "pr_review",
                            check_instructions_in_content(file)),
        extract_tool_sequence(JqNames(file.content)),
        detect_error_pattern(extract_tool_sequence(JqNames(file.content))),
        ExtractNotes(file),
        count_tool_occurrences(extract_tool_sequence(JqNames(file.content)), CREATE_PENDING),
        count_tool_occurrences(extract_tool_sequence(JqNames(file.content)), ADD_COMMENT),
        count_tool_occurrences(extract_tool_sequence(JqNames(file.content)), SUBMIT_PENDING),
        count_tool_occurrences(extract_tool_sequence(JqNames(file.content)), CREATE_AND_SUBMIT))

\* C16: the output starts with the header line, then holds one row per
\* transcript taken so far, in file order; the loop ends only when every one of
\* the K files has its row, whether or not it parsed
C16_HeaderThenOneRowPerFile ==
    /\ pc = "start" => output = << >>
    /\ pc # "start" =>
          /\ Len(output) = cursor + 1
          /\ output[1] = Header
          /\ \A i \in 1..cursor : output[i + 1] = RowOf(files[i])
    /\ pc = "summary" =>
          /\ cursor = Len(files)
          /\ Len(output) = Len(files) + 1

C16_Witness ==
    /\ pc = "summary"
    /\ Len(files) = 2
    /\ ~files[1].content.json
    /\ files[2].content.json
    /\ Len(JqNames(files[2].content)) = 1
    /\ Len(output) = 3
    /\ output[1] = Header
    /\ output[2].tool_sequence = << >>
    /\ output[3].tool_sequence = CREATE_AND_SUBMIT
    /\ output[3].success = "true"

----------------------------------------------------------------------------
\* The todo store

MaxCreates == 2
MaxClock == 1

\* Number.prototype.toString of a non-negative integer
RECURSIVE toString(_)
toString(n) == IF n < 10 THEN Digit(n) ELSE toString(n \div 10) \o Digit(n % 10)

\* the value of a property that was not given
undefined == "<undefined>"

\* Map.prototype.has
MapHas(m, k) == \E i \in 1..Len(m) : m[i].key = k

\* Map.prototype.get of a key the map has
MapGet(m, k) == m[CHOOSE i \in 1..Len(m) : m[i].key = k].value

\* Map.prototype.set: a new key goes to the end, a known key keeps its place
MapSet(m, k, v) ==
    IF MapHas(m, k)
    THEN [ i \in 1..Len(m) |-> IF m[i].key = k THEN [ key |-> k, value |-> v ] ELSE m[i] ]
    ELSE Append(m, [ key |-> k, value |-> v ])

\* the entry of a map is one of another key
OtherKey(e, k) == e.key # k

\* Map.prototype.delete, the map it leaves
MapDelete(m, k) == SelectSeq(m, LAMBDA e : OtherKey(e, k))

\* a value returned by a method of the store: a Todo, a Todo[], a boolean,
\* undefined or null
Returned(kind, value) == [ kind |-> kind, value |-> value ]

\* getAll(): Array.from(this.todos.values())
getAll(m) == [ i \in 1..Len(m) |-> m[i].value ]

\* getById(id): this.todos.get(id)
getById(m, id) ==
    IF MapHas(m, id) THEN Returned("Todo", MapGet(m, id)) ELSE Returned("undefined", << >>)

\* the smallest positive number whose string is no key of the map
RECURSIVE FirstFreeFrom(_, _)
FirstFreeFrom(m, n) ==
    IF \E i \in 1..Len(m) : m[i].key = toString(n) THEN FirstFreeFrom(m, n + 1) ELSE n

\* create that hands out the smallest id no stored todo has
create_ReusesFreedId(m, next, todoData, now) ==
    [ todos |-> MapSet(m, toString(FirstFreeFrom(m, 1)),
                       [ id |-> toString(FirstFreeFrom(m, 1)),
                         title |-> todoData.title,
                         description |-> IF "description" \in DOMAIN todoData
                                         THEN todoData.description ELSE undefined,
                         completed |-> FALSE,
                         createdAt |-> now,
                         updatedAt |-> now ]),
      nextId |-> next + 1,
      ret |-> Returned("Todo",
                       [ id |-> toString(FirstFreeFrom(m, 1)),
                         title |-> todoData.title,
                         description |-> IF "description" \in DOMAIN todoData
                                         THEN todoData.description ELSE undefined,
                         completed |-> FALSE,
                         createdAt |-> now,
                         updatedAt |-> now ]) ]

\* create that hands out the id it handed out last
create_SameId(m, next, todoData, now) ==
    [ todos |-> MapSet(m, toString(1),
                       [ id |-> toString(1),
                         title |-> todoData.title,
                         description |-> IF "description" \in DOMAIN todoData
                                         THEN todoData.description ELSE undefined,
                         completed |-> FALSE,
                         createdAt |-> now,
                         updatedAt |-> now ]),
      nextId |-> next + 1,
      ret |-> Returned("Todo",
                       [ id |-> toString(1),
                         title |-> todoData.title,
                         description |-> IF "description" \in DOMAIN todoData
                                         THEN todoData.description ELSE undefined,
                         completed |-> FALSE,
                         createdAt |-> now,
                         updatedAt |-> now ]) ]

\* create(todoData): the todos, the nextId and the returned todo
create(m, next, todoData, now) ==
    [ todos |-> MapSet(m, toString(next),
                       [ id |-> toString(next),
                         title |-> todoData.title,
                         description |-> IF "description" \in DOMAIN todoData
                                         THEN todoData.description ELSE undefined,
                         completed |-> FALSE,
                         createdAt |-> now,
                         updatedAt |-> now ]),
      nextId |-> next + 1,
      ret |-> Returned("Todo",
                       [ id |-> toString(next),
                         title |-> todoData.title,
                         description |-> IF "description" \in DOMAIN todoData
                                         THEN todoData.description ELSE undefined,
                         completed |-> FALSE,
                         createdAt |-> now,
                         updatedAt |-> now ]) ]

\* { ...todo, ...updates }: the properties of both, those of updates winning
Spread(todo, updates) ==
    [ f \in DOMAIN todo \cup DOMAIN updates |->
          IF f \in DOMAIN updates THEN updates[f] ELSE todo[f] ]

\* update that stores the updates as a new todo when the id is unknown
update_Upsert(m, id, updates, now) ==
    IF ~MapHas(m, id)
    THEN [ todos |-> MapSet(m, id, [ Spread([ id |-> id ], updates) EXCEPT !.updatedAt = now ]),
           ret |-> Returned("null", << >>) ]
    ELSE [ todos |-> MapSet(m, id, [ Spread(MapGet(m, id), updates) EXCEPT !.updatedAt = now ]),
           ret |-> Returned("Todo", [ Spread(MapGet(m, id), updates) EXCEPT !.updatedAt = now ]) ]

\* update that builds the todo from the updates and a fresh creation time
update_ResetsCreatedAt(m, id, updates, now) ==
    IF ~MapHas(m, id)
    THEN [ todos |-> m, ret |-> Returned("null", << >>) ]
    ELSE [ todos |-> MapSet(m, id, [ Spread(MapGet(m, id), updates) EXCEPT
                                        !.createdAt = now, !.updatedAt = now ]),
           ret |-> Returned("Todo", [ Spread(MapGet(m, id), updates) EXCEPT
                                        !.createdAt = now, !.updatedAt = now ]) ]

\* update(id, updates): the todos and the returned value
update(m, id, updates, now) ==
    IF ~MapHas(m, id)
    THEN [ todos |-> m, ret |-> Returned("null", << >>) ]
    ELSE [ todos |-> MapSet(m, id, [ Spread(MapGet(m, id), updates) EXCEPT !.updatedAt = now ]),
           ret |-> Returned("Todo", [ Spread(MapGet(m, id), updates) EXCEPT !.updatedAt = now ]) ]

\* delete that answers true whatever the id
delete_AlwaysTrue(m, id) ==
    [ todos |-> MapDelete(m, id), ret |-> Returned("boolean", TRUE) ]

\* delete(id): this.todos.delete(id)
delete(m, id) ==
    [ todos |-> MapDelete(m, id), ret |-> Returned("boolean", MapHas(m, id)) ]

\* todos.forEach(todo => todoStore.delete(todo.id)) over the array getAll gave
RECURSIVE DeleteEach(_, _)
DeleteEach(m, array) ==
    IF Len(array) = 0 THEN m
    ELSE DeleteEach(delete(m, array[1].id).todos, Tail(array))

\* the arguments of the calls: CreateTodoRequest, UpdateTodoRequest and ids
CreateTodoRequests == { [ title |-> "Todo 1" ], [ title |-> "Todo 2", description |-> "Test description" ] }

UpdateTodoRequests == { [ title |-> "Updated Title", completed |-> TRUE ] }

Ids == { toString(n) : n \in 1..MaxCreates } \cup { "non-existent" }

\* export const todoStore = new TodoStore()
InitStore ==
    /\ todos = << >>
    /\ nextId = 1
    /\ clock = 0
    /\ call = [ method |-> "constructor" ]
    /\ ret = Returned("undefined", << >>)
    /\ names = << >>
    /\ task = Unset
    /\ instructions_variant = Unset
    /\ sequence = Unset
    /\ success = Unset
    /\ create_pending_count = Unset
    /\ add_comment_count = Unset
    /\ submit_pending_count = Unset
    /\ create_and_submit_count = Unset
    /\ error_type = Unset
    /\ pc = "store"
    /\ NoRun
    /\ NoHttp

\* time passes between two calls
Tick ==
    /\ clock < MaxClock
    /\ clock' = clock + 1
    /\ UNCHANGED << todos, nextId, call, ret, evalVars, pc, runVars, httpVars >>

Create(todoData) ==
    /\ call' = [ method |-> "create", todoData |-> todoData ]
    /\ nextId <= MaxCreates
    /\ todos' = create(todos, nextId, todoData, clock).todos
    /\ nextId' = create(todos, nextId, todoData, clock).nextId
    /\ ret' = create(todos, nextId, todoData, clock).ret
    /\ UNCHANGED << clock, evalVars, pc, runVars, httpVars >>

GetAll ==
    /\ call' = [ method |-> "getAll" ]
    /\ ret' = Returned("Todo[]", getAll(todos))
    /\ UNCHANGED << todos, nextId, clock, evalVars, pc, runVars, httpVars >>

GetById(id) ==
    /\ call' = [ method |-> "getById", id |-> id ]
    /\ ret' = getById(todos, id)
    /\ UNCHANGED << todos, nextId, clock, evalVars, pc, runVars, httpVars >>

Update(id, updates) ==
    /\ call' = [ method |-> "update", id |-> id, updates |-> updates ]
    /\ todos' = update(todos, id, updates, clock).todos
    /\ ret' = update(todos, id, updates, clock).ret
    /\ UNCHANGED << nextId, clock, evalVars, pc, runVars, httpVars >>

Delete(id) ==
    /\ call' = [ method |-> "delete", id |-> id ]
    /\ todos' = delete(todos, id).todos
    /\ ret' = delete(todos, id).ret
    /\ UNCHANGED << nextId, clock, evalVars, pc, runVars, httpVars >>

\* beforeEach of the tests: the store is cleared through getAll and delete
BeforeEach ==
    /\ call' = [ method |-> "beforeEach" ]
    /\ todos' = DeleteEach(todos, getAll(todos))
    /\ ret' = Returned("undefined", << >>)
    /\ UNCHANGED << nextId, clock, evalVars, pc, runVars, httpVars >>

NextStore ==
    \/ Tick
    \/ \E todoData \in CreateTodoRequests : Create(todoData)
    \/ GetAll
    \/ \E id \in Ids : GetById(id)
    \/ \E id \in Ids, updates \in UpdateTodoRequests : Update(id, updates)
    \/ \E id \in Ids : Delete(id)
    \/ BeforeEach

SpecStore == InitStore /\ [][NextStore]_vars

\* the properties of a todo other than updatedAt
TodoFields == { "id", "title", "description", "completed", "createdAt" }

\* the stored todos other than the one under key id are the same in both maps
OthersUnchanged(before, after, id) ==
    \A k \in Ids \ { id } :
        /\ MapHas(after, k) <=> MapHas(before, k)
        /\ MapHas(before, k) => MapGet(after, k) = MapGet(before, k)

\* C17: whatever calls came before, create returns a todo with completed
\* false, createdAt equal to updatedAt, the title and description it was given
\* and an id that no todo stored before the call has; getById of that id then
\* returns an equal todo and getAll contains it
C17_CreateReturnsFreshTodo ==
    [][ \A todoData \in CreateTodoRequests :
            (call'.method = "create" /\ Create(todoData)) =>
                /\ ret'.kind = "Todo"
                /\ ret'.value.completed = FALSE
                /\ ret'.value.createdAt = ret'.value.updatedAt
                /\ ret'.value.title = todoData.title
                /\ ret'.value.description =
                      (IF "description" \in DOMAIN todoData
                       THEN todoData.description ELSE undefined)
                /\ \A i \in 1..Len(todos) :
                      /\ todos[i].value.id # ret'.value.id
                      /\ todos[i].key # ret'.value.id
                /\ getById(todos', ret'.value.id) = Returned("Todo", ret'.value)
                /\ \E i \in 1..Len(getAll(todos')) : getAll(todos')[i] = ret'.value
      ]_vars

C17_Witness ==
    /\ call.method = "create"
    /\ ret.kind = "Todo"
    /\ ret.value.id = "2"
    /\ ret.value.description = undefined
    /\ ret.value.createdAt = 1
    /\ Len(todos) = 1
    /\ todos[1].value = ret.value

\* C18: for an id that is not a key of the store, getById returns undefined,
\* update returns null and delete returns false, and the stored todos and the
\* next id stay as they were
C18_UnknownIdChangesNothing ==
    [][ \A id \in Ids :
            (/\ call'.method \in { "getById", "update", "delete" }
             /\ call'.id = id
             /\ ~MapHas(todos, id)) =>
                /\ GetById(id) =>
                      /\ ret'.kind = "undefined"
                      /\ todos' = todos /\ nextId' = nextId
                /\ \A updates \in UpdateTodoRequests :
                      Update(id, updates) =>
                          /\ ret'.kind = "null"
                          /\ todos' = todos /\ nextId' = nextId
                /\ Delete(id) =>
                      /\ ret' = Returned("boolean", FALSE)
                      /\ todos' = todos /\ nextId' = nextId
      ]_vars

C18_Witness ==
    /\ call.method = "update"
    /\ ret.kind = "null"
    /\ Len(todos) = 1
    /\ todos[1].key = "2"
    /\ nextId = 3

\* the todo is not the one with this id
OtherTodo(todo, id) == todo.id # id

\* C19: delete of an id that is a key of the store returns true and removes
\* that todo and no other; after it getById of the id gives undefined and
\* another delete of it gives false; deleting every todo getAll returns
\* leaves the store empty
C19_DeleteRemovesExactlyOne ==
    [][ /\ \A id \in Ids :
              (/\ call'.method = "delete"
               /\ call'.id = id
               /\ MapHas(todos, id)
               /\ Delete(id)) =>
                  /\ ret' = Returned("boolean", TRUE)
                  /\ ~MapHas(todos', id)
                  /\ getAll(todos') =
                        SelectSeq(getAll(todos), LAMBDA todo : OtherTodo(todo, id))
                  /\ Len(todos') = Len(todos) - 1
                  /\ OthersUnchanged(todos, todos', id)
                  /\ getById(todos', id).kind = "undefined"
                  /\ delete(todos', id).ret = Returned("boolean", FALSE)
                  /\ delete(todos', id).todos = todos'
        /\ BeforeEach => Len(getAll(todos')) = 0
      ]_vars

C19_Witness ==
    /\ call.method = "delete"
    /\ ret = Returned("boolean", TRUE)
    /\ Len(todos) = 1
    /\ todos[1].key = "2"
    /\ nextId = 3

\* C20: update of an id that is a key of the store returns the todo it
\* stores under that key; in it every field the update names has the new
\* value, every other field but updatedAt, id and createdAt among them, has the
\* value it had, and updatedAt is not earlier than it was; no other stored
\* todo changes
C20_UpdateMergesFields ==
    [][ \A id \in Ids, updates \in UpdateTodoRequests :
            (/\ call'.method = "update"
             /\ call'.id = id
             /\ call'.updates = updates
             /\ MapHas(todos, id)
             /\ Update(id, updates)) =>
                /\ ret'.kind = "Todo"
                /\ MapGet(todos', id) = ret'.value
                /\ \A f \in DOMAIN updates : ret'.value[f] = updates[f]
                /\ \A f \in TodoFields \ DOMAIN updates :
                      ret'.value[f] = MapGet(todos, id)[f]
                /\ ret'.value.id = id
                /\ ret'.value.createdAt = MapGet(todos, id).createdAt
                /\ ret'.value.updatedAt >= MapGet(todos, id).updatedAt
                /\ DOMAIN ret'.value = TodoFields \cup { "updatedAt" }
                /\ Len(todos') = Len(todos)
                /\ OthersUnchanged(todos, todos', id)
      ]_vars

C20_Witness ==
    /\ call.method = "update"
    /\ ret.kind = "Todo"
    /\ ret.value.id = "2"
    /\ ret.value.title = "Updated Title"
    /\ ret.value.completed = TRUE
    /\ ret.value.description = "Test description"
    /\ ret.value.createdAt = 0
    /\ ret.value.updatedAt = 1
    /\ Len(todos) = 2
    /\ todos[2].value = ret.value

\* the number an id of the store is the decimal string of
IdNumber(id) == CHOOSE n \in 1..(MaxCreates + 1) : toString(n) = id

\* C28: ids are handed out in strictly increasing order from 1 and never
\* again: every create returns the decimal string of the next id, which then
\* grows by one; no other call changes the next id; every stored todo has
\* an id, equal to its key, below the next id, so an id freed by delete stays
\* below every id handed out later
C28_IdsIncreaseNeverReused ==
    [][ /\ nextId >= 1
        /\ \A i \in 1..Len(todos) :
              /\ todos[i].value.id = todos[i].key
              /\ \E n \in 1..(nextId - 1) : toString(n) = todos[i].key
        /\ nextId' >= nextId
        /\ call'.method = "create" =>
              \A todoData \in CreateTodoRequests :
                  Create(todoData) =>
                      /\ ret'.value.id = toString(nextId)
                      /\ nextId' = nextId + 1
                      /\ \A i \in 1..Len(todos) :
                            IdNumber(todos[i].value.id) < IdNumber(ret'.value.id)
        /\ (call'.method \in { "update", "delete", "getById", "getAll", "beforeEach" }
            /\ call' # call) => nextId' = nextId
      ]_vars

C28_Witness ==
    /\ call.method = "create"
    /\ ret.kind = "Todo"
    /\ ret.value.title = "Todo 2"
    /\ nextId = 3
    /\ Len(todos) = 1
    /\ todos[1].key = "2"
    /\ todos[1].value.id = "2"

----------------------------------------------------------------------------
\* The validation middleware

MaxStringRuns == 3
MaxIdLength == 2

\* the length limits of the validation rules
MaxTitleLength == 100
MaxDescriptionLength == 500

\* A JavaScript string is modelled as a sequence of runs, a run being n >= 1
\* copies of one character; the characters are a letter, the space, the line
\* feed and the two angle brackets.
StringChars == { "a", " ", "\n", "<", ">" }

Run(ch, n) == [ ch |-> ch, n |-> n ]

\* String.prototype.length
RECURSIVE Length(_)
Length(str) == IF Len(str) = 0 THEN 0 ELSE str[1].n + Length(Tail(str))

\* str.trim().length === 0: nothing but white space
TrimIsEmpty(str) == \A i \in 1..Len(str) : str[i].ch \in { " ", "\n" }

\* /<[^>]*>/g.test(str): a '<' with a '>' somewhere after it
MatchesTag(str) ==
    \E i \in 1..Len(str) :
        /\ str[i].ch = "<"
        /\ \E j \in (i + 1)..Len(str) : str[j].ch = ">"

\* /<.*>/g.test(str): a '<' with a '>' after it on the same line, '.' matching
\* no line terminator
MatchesTagOnOneLine(str) ==
    \E i \in 1..Len(str) :
        /\ str[i].ch = "<"
        /\ \E j \in (i + 1)..Len(str) :
              /\ str[j].ch = ">"
              /\ \A k \in (i + 1)..(j - 1) : str[k].ch # "\n"

\* the values a property of a JSON body can have, and undefined for a
\* property the body lacks; text holds the runs of a string
JsUndefined == [ type |-> "undefined", truthy |-> FALSE, text |-> << >> ]
JsNull == [ type |-> "null", truthy |-> FALSE, text |-> << >> ]
JsNumber(truthy) == [ type |-> "number", truthy |-> truthy, text |-> << >> ]
JsBoolean(b) == [ type |-> "boolean", truthy |-> b, text |-> << >> ]
JsString(str) == [ type |-> "string", truthy |-> Len(str) > 0, text |-> str ]

\* the strings of the requests: every string of up to MaxStringRuns single
\* characters, and strings at and beyond the length limits
ShortStrings ==
    { [ i \in 1..Len(w) |-> Run(w[i], 1) ] : w \in SeqsUpTo(StringChars, MaxStringRuns) }

LongStrings ==
    { << Run("a", MaxTitleLength) >>,
      << Run("a", MaxTitleLength + 1) >>,
      << Run(" ", MaxTitleLength + 1) >>,
      << Run("<", 1), Run("a", MaxTitleLength), Run(">", 1) >>,
      << Run("a", MaxDescriptionLength) >>,
      << Run("a", MaxDescriptionLength + 1) >>,
      << Run("<", 1), Run("a", MaxDescriptionLength), Run(">", 1) >> }

JsValues ==
    { JsUndefined, JsNull, JsNumber(FALSE), JsNumber(TRUE), JsBoolean(FALSE), JsBoolean(TRUE) }
    \cup { JsString(str) : str \in ShortStrings \cup LongStrings }

\* an entry of the details list of a 400 response (its value left out)
ValidationError(field, message) == [ field |-> field, message |-> message ]

\* the title checks of validateTodoCreate: the errors they push
CreateTitleErrors(title) ==
    IF ~title.truthy
    THEN << ValidationError("title", "Title is required") >>
    ELSE IF title.type # "string"
    THEN << ValidationError("title", "Title must be a string") >>
    ELSE IF TrimIsEmpty(title.text)
    THEN << ValidationError("title", "Title cannot be empty") >>
    ELSE IF Length(title.text) > MaxTitleLength
    THEN << ValidationError("title", "Title must be 100 characters or less") >>
    ELSE IF MatchesTag(title.text)
    THEN << ValidationError("title", "Title cannot contain HTML tags") >>
    ELSE << >>

\* the description checks of validateTodoCreate
CreateDescriptionErrors(description) ==
    IF description.type \in { "undefined", "null" }
    THEN << >>
    ELSE IF description.type # "string"
    THEN << ValidationError("description", "Description must be a string") >>
    ELSE IF Length(description.text) > MaxDescriptionLength
    THEN << ValidationError("description", "Description must be 500 characters or less") >>
    ELSE IF MatchesTagOnOneLine(description.text)
    THEN << ValidationError("description", "Description cannot contain HTML tags") >>
    ELSE << >>

\* the title checks of validateTodoUpdate
UpdateTitleErrors(title) ==
    IF title.type = "undefined"
    THEN << >>
    ELSE IF title.type # "string"
    THEN << ValidationError("title", "Title must be a string") >>
    ELSE IF TrimIsEmpty(title.text)
    THEN << ValidationError("title", "Title cannot be empty") >>
    ELSE IF Length(title.text) > MaxTitleLength
    THEN << ValidationError("title", "Title must be 100 characters or less") >>
    ELSE IF MatchesTag(title.text)
    THEN << ValidationError("title", "Title cannot contain HTML tags") >>
    ELSE << >>

\* the description checks of validateTodoUpdate
UpdateDescriptionErrors(description) ==
    IF description.type \in { "undefined", "null" }
    THEN << >>
    ELSE IF description.type # "string"
    THEN << ValidationError("description", "Description must be a string") >>
    ELSE IF Length(description.text) > MaxDescriptionLength
    THEN << ValidationError("description", "Description must be 500 characters or less") >>
    ELSE IF MatchesTag(description.text)
    THEN << ValidationError("description", "Description cannot contain HTML tags") >>
    ELSE << >>

\* the completed check of validateTodoUpdate
UpdateCompletedErrors(completed) ==
    IF completed.type # "undefined" /\ completed.type # "boolean"
    THEN << ValidationError("completed", "Completed must be a boolean") >>
    ELSE << >>

\* what a middleware does with the request: next(), or a response
CallsNext == [ next |-> TRUE, status |-> 0, error |-> "", details |-> << >> ]

Responds(status, error, details) ==
    [ next |-> FALSE, status |-> status, error |-> error, details |-> details ]

\* the property of a body, undefined when the body has none of that name
Property(body, name) == IF name \in DOMAIN body THEN body[name] ELSE JsUndefined

validateTodoCreate(body) ==
    IF Len(CreateTitleErrors(Property(body, "title"))
           \o CreateDescriptionErrors(Property(body, "description"))) > 0
    THEN Responds(400, "Validation failed",
                  CreateTitleErrors(Property(body, "title"))
                  \o CreateDescriptionErrors(Property(body, "description")))
    ELSE CallsNext

validateTodoUpdate(body) ==
    IF Len(UpdateTitleErrors(Property(body, "title"))
           \o UpdateDescriptionErrors(Property(body, "description"))
           \o UpdateCompletedErrors(Property(body, "completed"))) > 0
    THEN Responds(400, "Validation failed",
                  UpdateTitleErrors(Property(body, "title"))
                  \o UpdateDescriptionErrors(Property(body, "description"))
                  \o UpdateCompletedErrors(Property(body, "completed")))
    ELSE CallsNext

\* the characters of an id path parameter
IdChars == { "0", "1", "7", "a", "-" }

\* /^\d+$/.test(id)
AllDigits(id) ==
    /\ Len(id) > 0
    /\ \A i \in 1..Len(id) : id[i] \in { Digit(d) : d \in 0..9 }

\* validateTodoId: the id is the sequence of its characters
validateTodoId(id) ==
    IF Len(id) = 0 \/ ~AllDigits(id)
    THEN Responds(400, "Invalid ID format",
                  << ValidationError("id", "ID must be a positive integer") >>)
    ELSE CallsNext

\* the requests the test application of the middleware receives: a body for
\* validateTodoCreate or validateTodoUpdate, an id for validateTodoId
TitleSamples ==
    { JsUndefined, JsString(<< Run("a", 1) >>), JsString(<< Run(" ", 1) >>),
      JsString(<< Run("<", 1), Run(">", 1) >>) }

DescriptionSamples ==
    { JsUndefined, JsNull, JsString(<< Run("a", 1) >>),
      JsString(<< Run("<", 1), Run(">", 1) >>),
      JsString(<< Run("<", 1), Run("\n", 1), Run(">", 1) >>) }

\* every value as the title beside a few descriptions, and every value as
\* the description beside a few titles
CreateBodies ==
    [ title : JsValues, description : DescriptionSamples ]
    \cup [ title : TitleSamples, description : JsValues ]

UpdateBodies ==
    [ title : { JsUndefined, JsString(<< Run("a", 1) >>), JsString(<< Run(" ", 1) >>) },
      description : JsValues,
      completed : { JsUndefined, JsBoolean(TRUE), JsString(<< Run("a", 1) >>) } ]

IdParams == SeqsUpTo(IdChars, MaxIdLength)

ValidationRequests ==
    { [ middleware |-> "validateTodoCreate", body |-> b, id |-> << >> ] : b \in CreateBodies }
    \cup { [ middleware |-> "validateTodoUpdate", body |-> b, id |-> << >> ] : b \in UpdateBodies }
    \cup { [ middleware |-> "validateTodoId", body |-> << >>, id |-> id ] : id \in IdParams }

InitValidate ==
    /\ req \in ValidationRequests
    /\ res = Unset
    /\ pc = "middleware"
    /\ names = << >>
    /\ task = Unset
    /\ instructions_variant = Unset
    /\ sequence = Unset
    /\ success = Unset
    /\ create_pending_count = Unset
    /\ add_comment_count = Unset
    /\ submit_pending_count = Unset
    /\ create_and_submit_count = Unset
    /\ error_type = Unset
    /\ NoRun
    /\ NoStore

ValidateTodoCreate ==
    /\ pc = "middleware"
    /\ req.middleware = "validateTodoCreate"
    /\ res' = validateTodoCreate(req.body)
    /\ pc' = "responded"
    /\ UNCHANGED << req, evalVars, runVars, storeVars >>

ValidateTodoUpdate ==
    /\ pc = "middleware"
    /\ req.middleware = "validateTodoUpdate"
    /\ res' = validateTodoUpdate(req.body)
    /\ pc' = "responded"
    /\ UNCHANGED << req, evalVars, runVars, storeVars >>

ValidateTodoId ==
    /\ pc = "middleware"
    /\ req.middleware = "validateTodoId"
    /\ res' = validateTodoId(req.id)
    /\ pc' = "responded"
    /\ UNCHANGED << req, evalVars, runVars, storeVars >>

NextValidate ==
    \/ ValidateTodoCreate
    \/ ValidateTodoUpdate
    \/ ValidateTodoId

SpecValidate == InitValidate /\ [][NextValidate]_vars

\* the string contains an HTML tag: a '<' and, somewhere after it, a '>'
ContainsHtmlTag(str) ==
    \E i \in 1..Len(str), j \in 1..Len(str) :
        i < j /\ str[i].ch = "<" /\ str[j].ch = ">"

\* the title rule: a string of 1 to 100 characters, not blank, without HTML tag
TitleIsValid(title) ==
    /\ title.type = "string"
    /\ Length(title.text) >= 1
    /\ Length(title.text) <= 100
    /\ \E i \in 1..Len(title.text) : title.text[i].ch \notin { " ", "\n" }
    /\ ~ContainsHtmlTag(title.text)

\* the description rule: absent (undefined or null), or a string of at most
\* 500 characters without HTML tag
DescriptionIsValid(description) ==
    \/ description.type \in { "undefined", "null" }
    \/ /\ description.type = "string"
       /\ Length(description.text) <= 500
       /\ ~ContainsHtmlTag(description.text)

\* how many entries of a details list are about the field
EntriesFor(details, field) ==
    Cardinality({ i \in 1..Len(details) : details[i].field = field })

\* C21: validateTodoCreate calls next() exactly when the title and the
\* description are valid; otherwise it answers 400 'Validation failed' with
\* one entry for each invalid field and none for a valid one
C21_CreateValidation ==
    (pc = "responded" /\ req.middleware = "validateTodoCreate") =>
        /\ res.next <=> (TitleIsValid(req.body.title) /\ DescriptionIsValid(req.body.description))
        /\ ~res.next =>
              /\ res.status = 400
              /\ res.error = "Validation failed"
              /\ EntriesFor(res.details, "title") =
                    (IF TitleIsValid(req.body.title) THEN 0 ELSE 1)
              /\ EntriesFor(res.details, "description") =
                    (IF DescriptionIsValid(req.body.description) THEN 0 ELSE 1)
              /\ Len(res.details) =
                    EntriesFor(res.details, "title") + EntriesFor(res.details, "description")

\* the id denotes a positive integer: decimal digits, not all of them 0
DenotesPositiveInteger(id) ==
    /\ Len(id) > 0
    /\ \A i \in 1..Len(id) : id[i] \in { Digit(d) : d \in 0..9 }
    /\ \E i \in 1..Len(id) : id[i] # "0"

\* C22: validateTodoId calls next() only for an id that denotes a positive
\* integer; every other id is answered 400 'Invalid ID format'
C22_IdValidation ==
    (pc = "responded" /\ req.middleware = "validateTodoId") =>
        /\ res.next <=> DenotesPositiveInteger(req.id)
        /\ ~res.next => (res.status = 400 /\ res.error = "Invalid ID format")

\* C23: for every description, validateTodoCreate reports a description error
\* if and only if validateTodoUpdate reports one
C23_SameDescriptionRule ==
    (pc = "responded" /\ req.middleware \in { "validateTodoCreate", "validateTodoUpdate" }) =>
        (EntriesFor(validateTodoCreate([ title |-> JsString(<< Run("a", 1) >>),
                                         description |-> req.body.description ]).details,
                    "description") > 0
         <=> EntriesFor(validateTodoUpdate([ description |-> req.body.description ]).details,
                        "description") > 0)

----------------------------------------------------------------------------
\* The todo routes: each request runs its middleware, then the handler and
\* the store call the handler makes

\* String.prototype.trim: the string without its leading and trailing white space
Trim(str) ==
    IF TrimIsEmpty(str) THEN << >>
    ELSE SubSeq(str,
                CHOOSE a \in 1..Len(str) :
                    /\ str[a].ch \notin { " ", "\n" }
                    /\ \A i \in 1..(a - 1) : str[i].ch \in { " ", "\n" },
                CHOOSE b \in 1..Len(str) :
                    /\ str[b].ch \notin { " ", "\n" }
                    /\ \A i \in (b + 1)..Len(str) : str[i].ch \in { " ", "\n" })

\* the id path parameter as the string the store is asked for
RECURSIVE JoinChars(_)
JoinChars(id) == IF Len(id) = 0 THEN "" ELSE id[1] \o JoinChars(Tail(id))

\* a response of a route: status, error message, details, and the JSON payload
Response(status, error, details, payload) ==
    [ status |-> status, error |-> error, details |-> details, payload |-> payload ]

\* the response a middleware gave instead of calling next()
Rejected(v) == Response(v.status, v.error, v.details, << >>)

\* the 404 of the handlers
NotFound(id) ==
    Response(404, "Todo not found",
             << ValidationError("id", "Todo with ID " \o JoinChars(id) \o " does not exist") >>,
             << >>)

\* description?.trim() || undefined
TrimmedOrUndefined(description) ==
    IF description.type = "string" /\ Len(Trim(description.text)) > 0
    THEN JsString(Trim(description.text))
    ELSE JsUndefined

\* the body of a PUT after the handler trimmed its title and description
\* (a boolean is held as the store holds completed)
TrimmedUpdates(updates) ==
    [ f \in DOMAIN updates |->
          IF f \in { "title", "description" } /\ updates[f].truthy
          THEN JsString(Trim(updates[f].text))
          ELSE IF f = "completed" /\ updates[f].type = "boolean"
          THEN updates[f].truthy
          ELSE updates[f] ]

\* router.get('/'): the todos, the next id and the response
GetTodosRoute(m, next) ==
    [ todos |-> m, nextId |-> next, res |-> Response(200, "", << >>, getAll(m)) ]

\* router.get('/:id', validateTodoId, ...)
GetTodoRoute(m, next, id) ==
    IF ~validateTodoId(id).next
    THEN [ todos |-> m, nextId |-> next, res |-> Rejected(validateTodoId(id)) ]
    ELSE IF getById(m, JoinChars(id)).kind = "undefined"
    THEN [ todos |-> m, nextId |-> next, res |-> NotFound(id) ]
    ELSE [ todos |-> m, nextId |-> next,
           res |-> Response(200, "", << >>, getById(m, JoinChars(id)).value) ]

\* router.post('/', validateTodoCreate, ...)
PostTodoRoute(m, next, body, now) ==
    IF ~validateTodoCreate(body).next
    THEN [ todos |-> m, nextId |-> next, res |-> Rejected(validateTodoCreate(body)) ]
    ELSE [ todos |-> create(m, next,
                            [ title |-> JsString(Trim(body.title.text)),
                              description |->
                                  TrimmedOrUndefined(Property(body, "description")) ],
                            now).todos,
           nextId |-> next + 1,
           res |-> Response(201, "", << >>,
                            create(m, next,
                                   [ title |-> JsString(Trim(body.title.text)),
                                     description |->
                                         TrimmedOrUndefined(Property(body, "description")) ],
                                   now).ret.value) ]

\* a PUT route that updates the store before it validates the body
PutTodoRoute_UpdateBeforeValidation(m, next, id, body, now) ==
    IF ~validateTodoId(id).next
    THEN [ todos |-> m, nextId |-> next, res |-> Rejected(validateTodoId(id)) ]
    ELSE IF update(m, JoinChars(id), TrimmedUpdates(body), now).ret.kind = "null"
    THEN [ todos |-> m, nextId |-> next, res |-> NotFound(id) ]
    ELSE IF ~validateTodoUpdate(body).next
    THEN [ todos |-> update(m, JoinChars(id), TrimmedUpdates(body), now).todos,
           nextId |-> next,
           res |-> Rejected(validateTodoUpdate(body)) ]
    ELSE [ todos |-> update(m, JoinChars(id), TrimmedUpdates(body), now).todos,
           nextId |-> next,
           res |-> Response(200, "", << >>,
                            update(m, JoinChars(id), TrimmedUpdates(body), now).ret.value) ]

\* router.put('/:id', validateTodoId, validateTodoUpdate, ...)
PutTodoRoute(m, next, id, body, now) ==
    IF ~validateTodoId(id).next
    THEN [ todos |-> m, nextId |-> next, res |-> Rejected(validateTodoId(id)) ]
    ELSE IF ~validateTodoUpdate(body).next
    THEN [ todos |-> m, nextId |-> next, res |-> Rejected(validateTodoUpdate(body)) ]
    ELSE IF update(m, JoinChars(id), TrimmedUpdates(body), now).ret.kind = "null"
    THEN [ todos |-> m, nextId |-> next, res |-> NotFound(id) ]
    ELSE [ todos |-> update(m, JoinChars(id), TrimmedUpdates(body), now).todos,
           nextId |-> next,
           res |-> Response(200, "", << >>,
                            update(m, JoinChars(id), TrimmedUpdates(body), now).ret.value) ]

\* router.delete('/:id', validateTodoId, ...)
DeleteTodoRoute(m, next, id) ==
    IF ~validateTodoId(id).next
    THEN [ todos |-> m, nextId |-> next, res |-> Rejected(validateTodoId(id)) ]
    ELSE IF ~delete(m, JoinChars(id)).ret.value
    THEN [ todos |-> m, nextId |-> next, res |-> NotFound(id) ]
    ELSE [ todos |-> delete(m, JoinChars(id)).todos,
           nextId |-> next,
           res |-> Response(204, "", << >>, << >>) ]

\* the requests: ids that pass and fail validateTodoId, stored or not; bodies
\* that pass and fail the validators; PUT bodies with keys the validator does
\* not look at
RouteIds ==
    { << Digit(n) >> : n \in 1..MaxCreates } \cup { << "0" >>, << "a" >>, << "0", "1" >> }

PostBodies ==
    { [ title |-> JsString(<< Run(" ", 1), Run("a", 1) >>) ],
      [ title |-> JsString(<< Run("a", 1) >>),
        description |-> JsString(<< Run("<", 1), Run("\n", 1), Run(">", 1) >>) ],
      [ title |-> JsString(<< Run(" ", 1) >>) ] }

\* (id and createdAt of a body are kept as the plain values the store holds)
PutBodies ==
    { [ title |-> JsString(<< Run("a", 1), Run(" ", 1) >>), completed |-> JsBoolean(TRUE) ],
      [ id |-> "2", createdAt |-> 7 ],
      [ title |-> JsString(<< Run(" ", 1) >>), completed |-> JsBoolean(TRUE) ] }

InitRoutes ==
    /\ todos = << >>
    /\ nextId = 1
    /\ clock = 0
    /\ call = [ method |-> "constructor" ]
    /\ ret = Returned("undefined", << >>)
    /\ req = [ method |-> "none" ]
    /\ res = Response(0, "", << >>, << >>)
    /\ names = << >>
    /\ task = Unset
    /\ instructions_variant = Unset
    /\ sequence = Unset
    /\ success = Unset
    /\ create_pending_count = Unset
    /\ add_comment_count = Unset
    /\ submit_pending_count = Unset
    /\ create_and_submit_count = Unset
    /\ error_type = Unset
    /\ pc = "listening"
    /\ NoRun

GetTodos ==
    /\ req' = [ method |-> "GET", path |-> "/" ]
    /\ res' = GetTodosRoute(todos, nextId).res
    /\ UNCHANGED << todos, nextId, clock, call, ret, evalVars, pc, runVars >>

GetTodo(id) ==
    /\ req' = [ method |-> "GET", path |-> "/:id", id |-> id ]
    /\ res' = GetTodoRoute(todos, nextId, id).res
    /\ UNCHANGED << todos, nextId, clock, call, ret, evalVars, pc, runVars >>

PostTodo(body) ==
    /\ nextId <= MaxCreates
    /\ req' = [ method |-> "POST", path |-> "/", body |-> body ]
    /\ todos' = PostTodoRoute(todos, nextId, body, clock).todos
    /\ nextId' = PostTodoRoute(todos, nextId, body, clock).nextId
    /\ res' = PostTodoRoute(todos, nextId, body, clock).res
    /\ UNCHANGED << clock, call, ret, evalVars, pc, runVars >>

PutTodo(id, body) ==
    /\ req' = [ method |-> "PUT", path |-> "/:id", id |-> id, body |-> body ]
    /\ todos' = PutTodoRoute(todos, nextId, id, body, clock).todos
    /\ nextId' = PutTodoRoute(todos, nextId, id, body, clock).nextId
    /\ res' = PutTodoRoute(todos, nextId, id, body, clock).res
    /\ UNCHANGED << clock, call, ret, evalVars, pc, runVars >>

DeleteTodo(id) ==
    /\ req' = [ method |-> "DELETE", path |-> "/:id", id |-> id ]
    /\ todos' = DeleteTodoRoute(todos, nextId, id).todos
    /\ nextId' = DeleteTodoRoute(todos, nextId, id).nextId
    /\ res' = DeleteTodoRoute(todos, nextId, id).res
    /\ UNCHANGED << clock, call, ret, evalVars, pc, runVars >>

NextRoutes ==
    \/ GetTodos
    \/ \E id \in RouteIds : GetTodo(id)
    \/ \E body \in PostBodies : PostTodo(body)
    \/ \E id \in RouteIds, body \in PutBodies : PutTodo(id, body)
    \/ \E id \in RouteIds : DeleteTodo(id)

SpecRoutes == InitRoutes /\ [][NextRoutes]_vars

\* the stored todo with the given key
StoredUnder(m, k) == MapGet(m, k)

\* C29: after any sequence of requests to the routes, every stored todo is
\* stored under a key equal to its own id field and still has the createdAt
\* it was created with, and a GET /:id answered 200 returns a todo whose id
\* is the requested one
C29_StoredUnderOwnId ==
    [][ /\ \A i \in 1..Len(todos') : todos'[i].value.id = todos'[i].key
        /\ \A i \in 1..Len(todos) :
              MapHas(todos', todos[i].key) =>
                  StoredUnder(todos', todos[i].key).createdAt = todos[i].value.createdAt
        /\ (req'.method = "GET" /\ req'.path = "/:id" /\ res'.status = 200) =>
              res'.payload.id = JoinChars(req'.id)
      ]_vars

\* the request and its response belong to the step that was taken
Answered(method, status) == req'.method = method /\ res'.status = status

\* C30: a request answered 400 or 404 leaves the store unchanged (no todo
\* created, modified or removed, no id consumed); the store changes only with
\* a POST answered 201, a PUT answered 200 or a DELETE answered 204
C30_RejectedLeavesStoreUnchanged ==
    [][ /\ res'.status \in { 400, 404 } =>
              /\ todos' = todos
              /\ nextId' = nextId
        /\ (todos' # todos \/ nextId' # nextId) =>
              \/ Answered("POST", 201)
              \/ Answered("PUT", 200)
              \/ Answered("DELETE", 204)
      ]_vars

\* a PUT with a body validateTodoUpdate rejects was answered 400 while the
\* todo it names is stored
C30_Witness ==
    /\ req.method = "PUT"
    /\ req.id = << "1" >>
    /\ res.status = 400
    /\ res.error = "Validation failed"
    /\ MapHas(todos, "1")
    /\ MapGet(todos, "1").completed = FALSE
    /\ nextId = 2

----------------------------------------------------------------------------
\* Tool names of servers whose identifier holds an underscore

MaxWideCalls == 2

\* the name VS Code records for a tool of the MCP server github_enterprise;
\* sed 's/^mcp_[^_]*_//' takes away mcp_github_ and leaves enterprise_<tool>
McpEnterprise(tool) == << "mcp", "_", "github", "_", "enterprise", "_" >> \o tool

WideNames ==
    RawNames \cup { McpEnterprise(CREATE_AND_SUBMIT), McpEnterprise(CREATE_PENDING) }

InitWide ==
    /\ names \in SeqsUpTo(WideNames, MaxWideCalls)
    /\ task = Unset
    /\ instructions_variant = Unset
    /\ sequence = Unset
    /\ success = Unset
    /\ create_pending_count = Unset
    /\ add_comment_count = Unset
    /\ submit_pending_count = Unset
    /\ create_and_submit_count = Unset
    /\ error_type = Unset
    /\ pc = "extract"
    /\ NoRun
    /\ NoStore
    /\ NoHttp

SpecWide == InitWide /\ [][Next]_vars

\* some element of the parsed sequence is the tool
IsElement(seq, tool) == \E i \in 1..Len(ReadArray(seq)) : ReadArray(seq)[i] = tool

\* C24: in detect_error_pattern the substring tests on the joined sequence
\* agree with exact membership in the parsed sequence, for each of the tool
\* name constants, so error_type and the occurrence counts never disagree
\* about whether a tool was called: immediate_submit implies
\* create_and_submit_count >= 1, missing_line_comments implies
\* create_pending_count >= 1
C24_SubstringAgreesWithMembership ==
    pc = "done" =>
        /\ \A tool \in { CREATE_PENDING, ADD_COMMENT, SUBMIT_PENDING, CREATE_AND_SUBMIT } :
              Contains(sequence, tool) <=> IsElement(sequence, tool)
        /\ error_type = "immediate_submit" => create_and_submit_count >= 1
        /\ error_type = "missing_line_comments" => create_pending_count >= 1

----------------------------------------------------------------------------
\* The summary of a run

\* the rows written, and those of a variant
Rows == { i \in 2..Len(output) : TRUE }
RowsOfVariant(variant) == { i \in Rows : output[i].instructions_variant = variant }
Successful(rows) == { i \in rows : output[i].success = "true" }

\* C25: in the summary, 'Total evaluations' is the number of rows written,
\* 'Successful' the number of rows whose success column is true, and each
\* per-variant line gives the number of rows of the variant and the number of
\* those whose success column is true, whatever the model names, tool
\* sequences and notes of the rows hold
C25_SummaryCountsRows ==
    pc = "done" =>
        /\ report.total = Cardinality(Rows)
        /\ report.successful = Cardinality(Successful(Rows))
        /\ \A variant \in SummaryVariants :
              /\ report.by_variant[variant].total = Cardinality(RowsOfVariant(variant))
              /\ report.by_variant[variant].success =
                     Cardinality(Successful(RowsOfVariant(variant)))

\* C26: for every input directory, one without a transcript file included,
\* the run ends with exit status 0 after printing the total, the successful
\* count and the success rate
C26_RunEndsAfterSummary ==
    pc = "done" =>
        /\ report.status = 0
        /\ report.total = Len(files)
        /\ report.rate.printed

----------------------------------------------------------------------------
\* The task each script hands to check_tools_present

MaxSegments == 2

\* the pieces of s joined into one string
RECURSIVE Text(_)
Text(s) == IF Len(s) = 0 THEN "" ELSE s[1] \o Text(Tail(s))

\* the parts of s between the pieces equal to sep
RECURSIVE SplitAt(_, _)
SplitAt(s, sep) ==
    IF \A j \in 1..Len(s) : s[j] # sep THEN << s >>
    ELSE LET c == CHOOSE j \in 1..Len(s) : s[j] = sep /\ \A i \in 1..(j - 1) : s[i] # sep
         IN  << SubSeq(s, 1, c - 1) >> \o SplitAt(SubSeq(s, c + 1, Len(s)), sep)

\* lines joined by line feeds
RECURSIVE JoinLines(_)
JoinLines(lines) ==
    IF Len(lines) = 0 THEN << >>
    ELSE IF Len(lines) = 1 THEN lines[1]
    ELSE lines[1] \o << "\n" >> \o JoinLines(Tail(lines))

\* $(...): the output without its trailing line feeds
RECURSIVE StripTrailingNewlines(_)
StripTrailingNewlines(s) ==
    IF Len(s) > 0 /\ s[Len(s)] = "\n"
    THEN StripTrailingNewlines(SubSeq(s, 1, Len(s) - 1)) ELSE s

\* cut -d<sep> -f<k> on one line: the whole line when it has no delimiter
CutLine(line, sep, k) ==
    IF \A j \in 1..Len(line) : line[j] # sep THEN line
    ELSE IF k <= Len(SplitAt(line, sep)) THEN SplitAt(line, sep)[k]
    ELSE << >>

\* $(echo "$text" | cut -d<sep> -f<k>)
Cut(text, sep, k) ==
    StripTrailingNewlines(
        JoinLines([ i \in 1..Len(SplitAt(text, "\n")) |->
                        CutLine(SplitAt(text, "\n")[i], sep, k) ]))

\* grep -o "p1\|p2...": the matches from piece k on, one per line, left to right
RECURSIVE GrepMatchesFrom(_, _, _)
GrepMatchesFrom(s, pats, k) ==
    IF k > Len(s) THEN << >>
    ELSE IF \E pat \in pats : MatchAt(s, pat, k)
    THEN LET pat == CHOOSE q \in pats : MatchAt(s, q, k)
         IN  << pat >> \o GrepMatchesFrom(s, pats, k + Len(pat))
    ELSE GrepMatchesFrom(s, pats, k + 1)

\* $(echo "$basename" | grep -o "..." || echo "<fallback>")
GrepOrElse(s, pats, fallback) ==
    IF Len(GrepMatchesFrom(s, pats, 1)) = 0 THEN fallback
    ELSE JoinLines(GrepMatchesFrom(s, pats, 1))

\* the patterns of parse_metadata
WITH_INSTRUCTIONS == << "with", "_", "instructions" >>
NO_INSTRUCTIONS   == << "NO", "_", "instructions" >>
PR_REVIEW         == << "pr", "_", "review" >>
SIMPLE_COMMENT    == << "simple", "_", "comment" >>
ISSUE_LINK        == << "issue", "_", "link" >>

\* a task pattern that takes the labels of the case statement
TaskPatterns_CaseLabels ==
    { PR_REVIEW, << "simple", "_", "pr", "_", "comment" >>, << "issue", "_", "link", "ing" >> }

\* grep -o "pr_review\|simple_comment\|issue_link"
TaskPatterns == { PR_REVIEW, SIMPLE_COMMENT, ISSUE_LINK }

\* parse_metadata: echo "$model,$instructions_variant,$task"
parse_metadata(basename) ==
    CutLine(basename, "_", 1)
    \o << "," >> \o GrepOrElse(basename, { WITH_INSTRUCTIONS, NO_INSTRUCTIONS }, << "unknown" >>)
    \o << "," >> \o GrepOrElse(basename, TaskPatterns, PR_REVIEW)

\* the file names: a model name, with a comma or without, followed by up to
\* MaxSegments parts
ModelParts == { << "gpt5mini" >>, << "a", ",", "b" >> }

NameParts ==
    { PR_REVIEW, SIMPLE_COMMENT, << "issue", "_", "link", "ing" >>,
      << "simple", "_", "pr", "_", "comment" >>,
      WITH_INSTRUCTIONS, NO_INSTRUCTIONS, << "v1" >> }

RECURSIVE JoinParts(_)
JoinParts(parts) ==
    IF Len(parts) = 0 THEN << >> ELSE << "_" >> \o parts[1] \o JoinParts(Tail(parts))

BaseNames ==
    { model \o JoinParts(parts) : model \in ModelParts, parts \in SeqsUpTo(NameParts, MaxSegments) }

\* the tool calls of the file
TaskCalls ==
    { << >>,
      << Mcp(CREATE_ISSUE), Mcp(CREATE_PR) >>,
      << Mcp(CREATE_AND_SUBMIT) >>,
      << Mcp(CREATE_PENDING), Mcp(ADD_COMMENT) >>,
      << Mcp(CREATE_PENDING), Mcp(ADD_COMMENT), Mcp(SUBMIT_PENDING) >> }

InitTasks ==
    /\ transcript \in BaseNames
    /\ names \in TaskCalls
    /\ pc \in { "filename-based", "content-based" }
    /\ task = Unset
    /\ instructions_variant = Unset
    /\ sequence = Unset
    /\ success = Unset
    /\ create_pending_count = Unset
    /\ add_comment_count = Unset
    /\ submit_pending_count = Unset
    /\ create_and_submit_count = Unset
    /\ error_type = Unset
    /\ files = << >>
    /\ cursor = 0
    /\ output = << >>
    /\ report = Unset
    /\ NoStore
    /\ NoHttp

\* the loop body of the filename-based script, up to the error pattern
EvaluateByFilename ==
    /\ pc = "filename-based"
    /\ instructions_variant' = Text(Cut(parse_metadata(transcript), ",", 2))
    /\ task' = Text(Cut(parse_metadata(transcript), ",", 3))
    /\ sequence' = extract_tool_sequence(names)
    /\ success' = check_tools_present(sequence', task', instructions_variant')
    /\ create_pending_count' = count_tool_occurrences(sequence', CREATE_PENDING)
    /\ add_comment_count' = count_tool_occurrences(sequence', ADD_COMMENT)
    /\ submit_pending_count' = count_tool_occurrences(sequence', SUBMIT_PENDING)
    /\ create_and_submit_count' = count_tool_occurrences(sequence', CREATE_AND_SUBMIT)
    /\ error_type' = detect_error_pattern(sequence')
    /\ pc' = "row"
    /\ UNCHANGED << names, runVars, storeVars, httpVars >>

\* the loop body of the content-based script, up to the error pattern
EvaluateByContent ==
    /\ pc = "content-based"
    /\ \E has_instruction \in BOOLEAN :
          instructions_variant' =
              IF has_instruction THEN "with_instructions" ELSE "no_instructions_found"
    /\ task' = "pr_review"
    /\ sequence' = extract_tool_sequence(names)
    /\ success' = check_tools_present(sequence', task', instructions_variant')
    /\ create_pending_count' = count_tool_occurrences(sequence', CREATE_PENDING)
    /\ add_comment_count' = count_tool_occurrences(sequence', ADD_COMMENT)
    /\ submit_pending_count' = count_tool_occurrences(sequence', SUBMIT_PENDING)
    /\ create_and_submit_count' = count_tool_occurrences(sequence', CREATE_AND_SUBMIT)
    /\ error_type' = detect_error_pattern(sequence')
    /\ pc' = "row"
    /\ UNCHANGED << names, runVars, storeVars, httpVars >>

NextTasks ==
    \/ EvaluateByFilename
    \/ EvaluateByContent

SpecTasks == InitTasks /\ [][NextTasks]_vars

\* the verdict of the pr_review branch
PrReviewRule(seq, variant) ==
    IF variant = "with_instructions"
    THEN PrReviewStrict(ReadArray(seq)) ELSE PrReviewPermissive(ReadArray(seq))

\* C27: in both scripts the task handed to check_tools_present is never
\* simple_pr_comment or issue_linking, so the success of every row is the
\* verdict of the pr_review rule, strict under with_instructions and
\* permissive otherwise
C27_AlwaysPrReviewRule ==
    pc = "row" =>
        /\ task \notin { "simple_pr_comment", "issue_linking" }
        /\ success = PrReviewRule(sequence, instructions_variant)

\* a file named for issue linking whose calls satisfy the issue_linking rule
\* was given the task issue_link and failed under the pr_review rule
C27_Witness ==
    /\ pc = "row"
    /\ transcript = << "gpt5mini", "_", "issue", "_", "link", "ing", "_", "with", "_", "instructions" >>
    /\ task = "issue_link"
    /\ instructions_variant = "with_instructions"
    /\ names = << Mcp(CREATE_ISSUE), Mcp(CREATE_PR) >>
    /\ IssueLinking(ReadArray(sequence)) = "true"
    /\ success = "false"

============================================================================
